---- MODULE Spec2Model ----
(***************************************************************************)
(* Room registry, coordinator and session (GameState) of chess-v4.         *)
(*                                                                         *)
(*   RoomManager / Room      src/unnamed/part_004                          *)
(*   GameState               src/unnamed/part_003                          *)
(*   coordinator             src/backend/server.js                         *)
(*                                                                         *)
(* Node runs every handler to completion on one thread, so each handler    *)
(* (socket event, timer callback) is one atomic action.                    *)
(***************************************************************************)
EXTENDS Integers, Sequences, FiniteSets, TLC

(***************************************************************************)
(* Inputs and bounds                                                       *)
(***************************************************************************)

\* socket ids of the connections (server.js passes socket.id as playerId)
Sockets == {"s1", "s2", "s3"}

\* the codes generateRoomCode can draw (two of the 67,600)
Codes == {"AB12", "CD34"}

\* the codes drawn, and the codes typed by a client in join_room (any case), where
\* the registry runs on its own
RegistryCodes == {"AB12"}
RegistryTyped == {"AB12", "ab12", "CD34"}

\* display names given in the handshake (socket.handshake.auth.username): s1 and s3
\* are two connections of one user, s2 is a connection of another
Users == {"u1", "u2"}
HandshakeUser == [s \in Sockets |-> IF s = "s2" THEN "u2" ELSE "u1"]

\* the codes typed where connections come and go
ConnTyped == {"AB12"}

\* the codes typed where the coordinator runs
CoordTyped == {"AB12", "ab12"}

\* String.prototype.toUpperCase on the typed codes
ToUpperCaseNot(c) == c
ToUpperCase(c) == IF c = "ab12" THEN "AB12" ELSE c

NoColor == "none"
NoCode == "none"
\* null, where a room or a game is expected
NoGame == [status |-> "none"]

\* Room.maxPlayers
MaxPlayers == 2

\* createRoom's maxAttempts
MaxAttempts == 10

\* Room.expirationTime, 24 h in ms
ExpirationTime == 86400000

\* the game settings a room is created with (ms)
RoomSettings == {[initialTime |-> 300, increment |-> 100, rated |-> FALSE]}

\* no more GameStates than this are constructed
MaxGames == 2

\* where connections come and go, no room is joined and no delayed start runs once
\* this many GameStates have been constructed
MaxConnGames == 1

\* no more delayed starts than this are pending at once
MaxStartTimers == 1

\* the settings a session is constructed with where it runs on its own (ms)
GameSettings == {[initialTime |-> 200, increment |-> 100, rated |-> FALSE]}

\* setInterval period of a clock, ms
TickMs == 100

\* the step of the session clock (ms): half a timer period
TimeStep == TickMs \div 2

\* the session is followed for this many clock steps
MaxClockSteps == 6

\* where the answers of resign and draw_offer are kept, the session is followed for
\* this many timer periods
MaxPeriods == 2

\* no more plies than this are played
MaxPly == 3

\* the registry is followed for this many idle periods longer than a room lives
MaxIdlePeriods == 1

VARIABLES
  now,          \* Date.now(), ms
  rooms,        \* RoomManager.rooms: code -> Room
  playerRooms,  \* RoomManager.playerRooms: socket id -> code
  resp,         \* the answer to the request handled last (with what it saw)
  prev,         \* the answer to the request handled before that
  socketRooms,  \* socket.io rooms: the pairs <<channel, socket id>>
  startTimers,  \* the pending delayed-start timers of join_room, oldest first
  activeGames,  \* activeGames: gameId -> GameState
  gamesCreated, \* the number of GameStates constructed so far (names the next gameId)
  fillSessions, \* per room code: sessions created since its second player slot was filled
  turnStart,    \* per game: the mover's timeRemaining when its turn began
  timedOut,     \* per game: the colour whose clock a tick ran out, "none" before that
  conn,         \* per socket id: the state of the connection and socket.session.username
  sessions,     \* AuthManager.sessions: sessionId -> session
  socketSessions, \* AuthManager.socketSessions: socket id -> sessionId
  graceTimers,  \* the pending grace timers of handleDisconnection, by socket id
  matchmakingQueues, \* matchmakingQueues: queueKey -> the waiting socket ids, oldest first
  matchmakingQueue,  \* per socket id: socket.matchmakingQueue, "none" when not set
  cleanupTimers \* handleGameEnd: the gameIds with a pending clean-up timer

registryVars == <<rooms, playerRooms>>
coordVars == <<socketRooms, startTimers, activeGames, gamesCreated, fillSessions>>
clockVars == <<turnStart, timedOut>>
authVars == <<conn, sessions, socketSessions, graceTimers>>
playVars == <<matchmakingQueues, matchmakingQueue, cleanupTimers>>
vars == <<now, rooms, playerRooms, resp, prev, socketRooms, startTimers, activeGames,
          gamesCreated, fillSessions, turnStart, timedOut, conn, sessions,
          socketSessions, graceTimers, matchmakingQueues, matchmakingQueue,
          cleanupTimers>>

(***************************************************************************)
(* Room (part_004, class Room)                                             *)
(***************************************************************************)

\* this.players.has(id): players is a Map, kept here in insertion order
HasPlayer(room, id) == \E i \in 1..Len(room.players) : room.players[i].id = id

PlayerOf(room, id) ==
  room.players[CHOOSE i \in 1..Len(room.players) : room.players[i].id = id]

PlayerIds(room) == {room.players[i].id : i \in 1..Len(room.players)}

Occupants(room) == PlayerIds(room) \cup room.spectators

\* line 335: this.players.size >= this.maxPlayers
RoomIsFullOffByOne(room) == Len(room.players) > MaxPlayers
RoomIsFull(room) == Len(room.players) >= MaxPlayers

\* line 346: the colour of the next player slot
NextColor(room) == IF Len(room.players) = 0 THEN "white" ELSE "black"

\* lines 305-324: a socket that is already in the room gets its slot back
AlreadyInRoomForget(room) == {}
AlreadyInRoom(room) == Occupants(room)

\* lines 327-331 and 337-341: this.spectators.set(playerId, ...)
AddSpectatorDropped(room, playerId) == room
AddSpectator(room, playerId) == [room EXCEPT !.spectators = @ \cup {playerId}]

JoinAnswer(role, color, message) ==
  [success |-> TRUE, role |-> role, color |-> color, message |-> message]

AddPlayer(room, playerId, isSpectator, t) ==
  LET r0 == [room EXCEPT !.lastActivity = t] IN
  IF playerId \in AlreadyInRoom(r0) /\ HasPlayer(r0, playerId)
  THEN [room |-> r0,
        result |-> JoinAnswer("player", PlayerOf(r0, playerId).color, "Already in room")]
  ELSE IF playerId \in AlreadyInRoom(r0) /\ playerId \in r0.spectators
  THEN [room |-> r0,
        result |-> JoinAnswer("spectator", NoColor, "Already in room as spectator")]
  ELSE IF isSpectator
  THEN [room |-> AddSpectator(r0, playerId),
        result |-> JoinAnswer("spectator", NoColor, "")]
  ELSE IF RoomIsFull(r0)
  THEN [room |-> AddSpectator(r0, playerId),
        result |-> JoinAnswer("spectator", NoColor, "Room full, joined as spectator")]
  ELSE LET color == NextColor(r0)
           r1 == [r0 EXCEPT !.players = Append(@, [id |-> playerId, color |-> color])]
           r2 == IF Len(r1.players) = MaxPlayers
                 THEN [r1 EXCEPT !.status = "ready"] ELSE r1
       IN [room |-> r2, result |-> JoinAnswer("player", color, "")]

\* new Room(code, creatorId, name, gameSettings): empty room, then addPlayer(creator).
\* The settings are given with every key, so no default applies.
NewRoom(creatorId, gameSettings, t) ==
  AddPlayer([players |-> <<>>, spectators |-> {}, status |-> "waiting",
             gameSettings |-> gameSettings, gameState |-> NoGame,
             lastActivity |-> t], creatorId, FALSE, t).room

\* removePlayer: a player has left during the game
AbandonsAlways(room, wasPlayer) == TRUE
Abandons(room, wasPlayer) == wasPlayer /\ room.status = "playing"

RemovePlayer(room, playerId, t) ==
  LET r0 == [room EXCEPT !.lastActivity = t]
      wasPlayer == HasPlayer(r0, playerId)
      r1 == IF wasPlayer
            THEN [r0 EXCEPT !.players = SelectSeq(@, LAMBDA p : p.id # playerId)]
            ELSE [r0 EXCEPT !.spectators = @ \ {playerId}]
  IN IF Abandons(r1, wasPlayer)
     THEN [r1 EXCEPT !.status = "abandoned"] ELSE r1

IsEmptyNever(room) == FALSE
IsEmpty(room) == Len(room.players) = 0 /\ room.spectators = {}

IsExpired(room, t) == t - room.lastActivity > ExpirationTime

(***************************************************************************)
(* RoomManager (part_004, class RoomManager).  A method is an operator     *)
(* from the manager's fields m = [rooms, playerRooms] to the fields after  *)
(* the call and the value returned.                                        *)
(***************************************************************************)

Drop(f, ks) == [k \in DOMAIN f \ ks |-> f[k]]
Put(f, k, v) == [x \in DOMAIN f \cup {k} |-> IF x = k THEN v ELSE f[x]]

Manager == [rooms |-> rooms, playerRooms |-> playerRooms]

\* removeRoom: forget the room and the index entries of its occupants
RemoveRoom(m, code) ==
  IF code \in DOMAIN m.rooms
  THEN [rooms |-> Drop(m.rooms, {code}),
        playerRooms |-> Drop(m.playerRooms, Occupants(m.rooms[code]))]
  ELSE m

NothingSeen ==
  [count |-> -1, occupant |-> FALSE, expired |-> FALSE, players |-> << >>, spectators |-> {}]

\* what a request saw before it was handled (kept with the answer)
Seen(m, code, id, t) ==
  IF code \in DOMAIN m.rooms
  THEN [count |-> Len(m.rooms[code].players),
        occupant |-> id \in Occupants(m.rooms[code]),
        expired |-> IsExpired(m.rooms[code], t),
        players |-> m.rooms[code].players,
        spectators |-> m.rooms[code].spectators]
  ELSE NothingSeen

Answer(op, id, code, spectator, success, role, color, error, seen) ==
  [op |-> op, id |-> id, code |-> code, spectator |-> spectator, success |-> success,
   role |-> role, color |-> color, error |-> error, seen |-> seen]

NoAnswer ==
  Answer("none", "none", NoCode, FALSE, FALSE, "none", NoColor, "", NothingSeen)

\* createRoom, the loop condition: the code drawn is in use and redraws are left
LoopGoesOnNever(m, roomCode, attempts) == FALSE
LoopGoesOn(m, roomCode, attempts) ==
  roomCode \in DOMAIN m.rooms /\ attempts < MaxAttempts

\* createRoom, the loop over the values generateRoomCode returns one after the
\* other: the code it stops at and the number of redraws
RECURSIVE DrawLoop(_, _, _)
DrawLoop(m, draws, attempts) ==
  IF LoopGoesOn(m, draws[attempts + 1], attempts)
  THEN DrawLoop(m, draws, attempts + 1)
  ELSE [code |-> draws[attempts + 1], attempts |-> attempts]

\* createRoom: `collisions` draws of generateRoomCode hit a live room, then `code`
\* is drawn; the loop stops at a free code or after maxAttempts redraws
CreateRoom(m, creatorId, gameSettings, collisions, code, t) ==
  IF collisions >= MaxAttempts
  THEN [m |-> m,
        result |-> Answer("createRoom", creatorId, NoCode, FALSE, FALSE, "none", NoColor,
                          "Failed to generate unique room code", Seen(m, NoCode, creatorId, t))]
  ELSE LET room == NewRoom(creatorId, gameSettings, t) IN
       [m |-> [rooms |-> Put(m.rooms, code, room),
               playerRooms |-> Put(m.playerRooms, creatorId, code)],
        result |-> Answer("createRoom", creatorId, code, FALSE, TRUE, "player",
                          PlayerOf(room, creatorId).color, "", Seen(m, code, creatorId, t))]

\* the draws createRoom can see: a draw collides only with a live room, and the
\* draw the loop stops at before maxAttempts is a free code
CanDraw(m, collisions, code) ==
  /\ collisions > 0 => DOMAIN m.rooms # {}
  /\ collisions < MaxAttempts => code \notin DOMAIN m.rooms

JoinRoom(m, typed, playerId, isSpectator, t) ==
  LET roomCode == ToUpperCase(typed)
      seen == Seen(m, roomCode, playerId, t)
  IN IF roomCode \notin DOMAIN m.rooms
     THEN [m |-> m,
           result |-> Answer("joinRoom", playerId, roomCode, isSpectator, FALSE, "none",
                             NoColor, "Room not found", seen)]
     ELSE IF IsExpired(m.rooms[roomCode], t)
     THEN [m |-> RemoveRoom(m, roomCode),
           result |-> Answer("joinRoom", playerId, roomCode, isSpectator, FALSE, "none",
                             NoColor, "Room has expired", seen)]
     ELSE LET j == AddPlayer(m.rooms[roomCode], playerId, isSpectator, t) IN
          [m |-> [rooms |-> [m.rooms EXCEPT ![roomCode] = j.room],
                  playerRooms |-> Put(m.playerRooms, playerId, roomCode)],
           result |-> Answer("joinRoom", playerId, roomCode, isSpectator, TRUE,
                             j.result.role, j.result.color, "", seen)]

LeaveRoom(m, playerId, t) ==
  IF playerId \notin DOMAIN m.playerRooms
  THEN [m |-> m,
        result |-> Answer("leaveRoom", playerId, NoCode, FALSE, TRUE, "none", NoColor,
                          "", Seen(m, NoCode, playerId, t))]
  ELSE LET roomCode == m.playerRooms[playerId] IN
       IF roomCode \notin DOMAIN m.rooms
       THEN [m |-> [m EXCEPT !.playerRooms = Drop(@, {playerId})],
             result |-> Answer("leaveRoom", playerId, NoCode, FALSE, TRUE, "none", NoColor,
                               "", Seen(m, roomCode, playerId, t))]
       ELSE LET left == RemovePlayer(m.rooms[roomCode], playerId, t)
                m1 == [rooms |-> [m.rooms EXCEPT ![roomCode] = left],
                       playerRooms |-> Drop(m.playerRooms, {playerId})]
            IN [m |-> IF IsEmpty(left) THEN RemoveRoom(m1, roomCode) ELSE m1,
                result |-> Answer("leaveRoom", playerId, roomCode, FALSE, TRUE, "none",
                                  NoColor, "", Seen(m, roomCode, playerId, t))]

\* updateRoomStatus
UpdateRoomStatus(m, typed, status) ==
  IF ToUpperCase(typed) \in DOMAIN m.rooms
  THEN [m EXCEPT !.rooms[ToUpperCase(typed)].status = status]
  ELSE m

(***************************************************************************)
(* GameState (part_003, class GameState).  The board is chess.js's: the    *)
(* model keeps the side to move, the number of plies and the terminal      *)
(* condition, and a move request carries the verdict chess.js gives it.    *)
(* A timer is the time its setInterval callback is due next.               *)
(***************************************************************************)

NoTimer == -1

Other(color) == IF color = "white" THEN "black" ELSE "white"
TurnColor(chess) == IF chess.turn = "w" THEN "white" ELSE "black"
Max(a, b) == IF a >= b THEN a ELSE b

\* the verdicts of chess.js on a move request
Terminal == {"checkmate", "stalemate", "repetition", "insufficient material", "50-move rule"}

\* the verdicts drawn for the move requests
MoveVerdicts == {"illegal", "ok", "checkmate", "stalemate"}

NewChess == [turn |-> "w", ply |-> 0, over |-> "none"]

\* chess.move of a legal move
ChessMove(chess, verdict) ==
  [turn |-> IF chess.turn = "w" THEN "b" ELSE "w",
   ply |-> chess.ply + 1,
   over |-> IF verdict \in Terminal THEN verdict ELSE "none"]

\* constructor: the colour is the index in the list, whatever the caller passed
GameState(gameId, gameSettings, players, t) ==
  [gameId |-> gameId,
   chess |-> NewChess,
   startTime |-> t,
   lastMoveTime |-> t,
   settings |-> gameSettings,
   players |-> [i \in 1..Len(players) |->
                  [id |-> players[i].id,
                   color |-> IF i = 1 THEN "white" ELSE "black",
                   timeRemaining |-> gameSettings.initialTime,
                   connected |-> TRUE,
                   drawOffered |-> FALSE]],
   moveHistory |-> << >>,
   chatHistory |-> << >>,
   status |-> "waiting",
   result |-> "none",
   endReason |-> "none",
   timers |-> [white |-> NoTimer, black |-> NoTimer]]

\* this.players.find(p => p.id === playerId): index of the first match, 0 if none
FindById(g, playerId) ==
  IF \E i \in 1..Len(g.players) : g.players[i].id = playerId
  THEN CHOOSE i \in 1..Len(g.players) :
         /\ g.players[i].id = playerId
         /\ \A j \in 1..(i - 1) : g.players[j].id # playerId
  ELSE 0

\* this.players.find(p => p.color === color)
FindByColor(g, color) ==
  IF \E i \in 1..Len(g.players) : g.players[i].color = color
  THEN CHOOSE i \in 1..Len(g.players) :
         /\ g.players[i].color = color
         /\ \A j \in 1..(i - 1) : g.players[j].color # color
  ELSE 0

\* startTimer: clear the colour's interval if any, set a new one
StartTimer(g, color, t) == [g EXCEPT !.timers[color] = t + TickMs]

StopTimerKeep(g, color) == g
StopTimer(g, color) == [g EXCEPT !.timers[color] = NoTimer]

StopAllTimers(g) == StopTimer(StopTimer(g, "white"), "black")

GameResult(success, error) == [success |-> success, error |-> error]

\* the number of chat messages addChatMessage keeps, and the number getGameState
\* returns
ChatLimit == 50
ChatExposed == 20

\* Array.prototype.slice(-n): the last n elements, all of them if there are fewer
SliceLast(h, n) == SubSeq(h, Max(Len(h) - n, 0) + 1, Len(h))

\* addChatMessage, line 559: the history has grown beyond the limit
ChatOverflowNever(h) == FALSE
ChatOverflow(h) == Len(h) > ChatLimit

\* addChatMessage; a message stands for the chatMessage object made from it
AddChatMessage(g, playerId, message, type) ==
  IF FindById(g, playerId) = 0 /\ type # "system"
  THEN [g |-> g, result |-> GameResult(FALSE, "Player not found")]
  ELSE LET h == Append(g.chatHistory, message) IN
       [g |-> [g EXCEPT !.chatHistory = IF ChatOverflow(h) THEN SliceLast(h, ChatLimit)
                                        ELSE h],
        result |-> GameResult(TRUE, "")]

\* getGameState().chatHistory
ChatSnapshot(g) == SliceLast(g.chatHistory, ChatExposed)

\* startGame, line 334: the session does not hold two players
WrongPlayerCountNever(g) == FALSE
WrongPlayerCount(g) == Len(g.players) # 2

StartGame(g, t) ==
  IF WrongPlayerCount(g)
  THEN [g |-> g, result |-> GameResult(FALSE, "Need exactly 2 players to start")]
  ELSE [g |-> StartTimer([g EXCEPT !.status = "playing", !.startTime = t,
                                   !.lastMoveTime = t], "white", t),
        result |-> GameResult(TRUE, "")]

\* updatePlayerTime: the clock of the player of that colour, and of no other
UpdatePlayerTimeAll(g, color, timeTaken) ==
  [g EXCEPT !.players = [i \in DOMAIN g.players |->
                           [g.players[i] EXCEPT !.timeRemaining =
                              Max(0, @ - timeTaken + g.settings.increment)]]]
UpdatePlayerTime(g, color, timeTaken) ==
  LET i == FindByColor(g, color) IN
  IF i = 0 THEN g
  ELSE [g EXCEPT !.players[i].timeRemaining =
                    Max(0, @ - timeTaken + g.settings.increment)]

\* checkGameEnd
CheckGameEnd(g) ==
  IF g.chess.over = "none" THEN g
  ELSE LET f == StopAllTimers([g EXCEPT !.status = "finished"]) IN
       IF g.chess.over = "checkmate"
       THEN [f EXCEPT !.result = IF g.chess.turn = "w" THEN "black" ELSE "white",
                      !.endReason = "checkmate"]
       ELSE [f EXCEPT !.result = "draw", !.endReason = g.chess.over]

\* lines 366-371: makeMove refuses unless the game is playing
MoveAllowedAlways(g) == TRUE
MoveAllowed(g) == g.status = "playing"

\* lines 382-389: the mover's colour is not the side to move
NotYourTurnNever(g, color) == FALSE
NotYourTurn(g, color) ==
  \/ g.chess.turn = "w" /\ color # "white"
  \/ g.chess.turn = "b" /\ color # "black"

\* lines 412-414: the mover's clock is stopped, the opponent's started
SwitchClocksNoStop(g, color, t) == StartTimer(g, Other(color), t)
SwitchClocks(g, color, t) == StartTimer(StopTimer(g, color), Other(color), t)

\* lines 417-424: the accepted move is pushed at the end of the history
RecordMoveFirst(h, entry) == <<entry>> \o h
RecordMove(h, entry) == Append(h, entry)

MakeMove(g, playerId, verdict, t) ==
  IF ~MoveAllowed(g)
  THEN [g |-> g, result |-> GameResult(FALSE, "Game is not in playing state")]
  ELSE LET i == FindById(g, playerId) IN
  IF i = 0
  THEN [g |-> g, result |-> GameResult(FALSE, "Player not found in this game")]
  ELSE LET player == g.players[i] IN
  IF NotYourTurn(g, player.color)
  THEN [g |-> g, result |-> GameResult(FALSE, "Not your turn")]
  ELSE IF verdict = "illegal" \/ g.chess.over # "none"
  THEN [g |-> g, result |-> GameResult(FALSE, "Invalid move")]
  ELSE LET g1 == [g EXCEPT !.chess = ChessMove(@, verdict)]
           timeTaken == t - g.lastMoveTime
           g2 == UpdatePlayerTime(g1, player.color, timeTaken)
           g3 == SwitchClocks(g2, player.color, t)
           g4 == [g3 EXCEPT !.moveHistory =
                               RecordMove(@, [move |-> verdict, player |-> player.id,
                                              color |-> player.color,
                                              ply |-> g1.chess.ply]),
                            !.lastMoveTime = t]
       IN [g |-> CheckGameEnd(g4), result |-> GameResult(TRUE, "")]

\* handleTimeOut
HandleTimeOut(g, color) ==
  StopAllTimers([g EXCEPT !.status = "finished", !.result = Other(color),
                          !.endReason = "timeout"])

\* lines 602-605: the tick that uses the clock up reports the timeout
TickTimeOutNever(g, color) == g
TickTimeOut(g, color) == HandleTimeOut(g, color)

\* the callback startTimer hands to setInterval, run at time t
TimerTick(g, color, t) ==
  LET i == FindByColor(g, color)
      g0 == [g EXCEPT !.timers[color] = t + TickMs]
  IN IF i # 0 /\ g0.players[i].timeRemaining > 0
     THEN LET g1 == [g0 EXCEPT !.players[i].timeRemaining = @ - TickMs] IN
          IF g1.players[i].timeRemaining <= 0
          THEN TickTimeOut([g1 EXCEPT !.players[i].timeRemaining = 0], color)
          ELSE g1
     ELSE g0

\* lines 462-466: the session as the resignation of `color` leaves it
ResignedClocksRun(g, color) ==
  [g EXCEPT !.status = "finished", !.result = Other(color), !.endReason = "resignation"]
Resigned(g, color) ==
  StopAllTimers([g EXCEPT !.status = "finished", !.result = Other(color),
                          !.endReason = "resignation"])

Resign(g, playerId) ==
  LET i == FindById(g, playerId) IN
  IF i = 0
  THEN [g |-> g, result |-> GameResult(FALSE, "Player not found")]
  ELSE [g |-> Resigned(g, g.players[i].color), result |-> GameResult(TRUE, "")]

\* the other player of handleDraw: this.players.find(p => p.id !== playerId)
Opponent(g, playerId) ==
  IF \E i \in 1..Len(g.players) : g.players[i].id # playerId
  THEN CHOOSE i \in 1..Len(g.players) :
         /\ g.players[i].id # playerId
         /\ \A j \in 1..(i - 1) : g.players[j].id = playerId
  ELSE 0

\* line 505: !opponent || !opponent.drawOffered
NoDrawOfferNever(g, o) == FALSE
NoDrawOffer(g, o) == o = 0 \/ ~g.players[o].drawOffered

HandleDraw(g, playerId, action) ==
  LET i == FindById(g, playerId) IN
  IF i = 0
  THEN [g |-> g, result |-> GameResult(FALSE, "Player not found")]
  ELSE IF action = "offer"
  THEN [g |-> [g EXCEPT !.players[i].drawOffered = TRUE], result |-> GameResult(TRUE, "")]
  ELSE IF action = "accept"
  THEN LET o == Opponent(g, playerId) IN
       IF NoDrawOffer(g, o)
       THEN [g |-> g, result |-> GameResult(FALSE, "No draw offer to accept")]
       ELSE [g |-> StopAllTimers([g EXCEPT !.status = "finished", !.result = "draw",
                                           !.endReason = "mutual agreement"]),
             result |-> GameResult(TRUE, "")]
  ELSE [g |-> g, result |-> GameResult(FALSE, "Invalid draw action")]

PauseTimers(g) == [StopAllTimers(g) EXCEPT !.status = "paused"]

ResumeTimers(g, t) ==
  IF g.status = "paused"
  THEN StartTimer([g EXCEPT !.status = "playing"], TurnColor(g.chess), t)
  ELSE g

UpdatePlayerConnection(g, playerId, connected, t) ==
  LET i == FindById(g, playerId) IN
  IF i = 0 THEN g
  ELSE LET g1 == [g EXCEPT !.players[i].connected = connected] IN
       IF ~connected /\ g1.status = "playing" THEN PauseTimers(g1)
       ELSE IF connected /\ g1.status = "playing" THEN ResumeTimers(g1, t)
       ELSE g1

(***************************************************************************)
(* Coordinator (server.js): the socket handlers of the room events         *)
(***************************************************************************)

RoomChannel(code) == <<"room", code>>

GameChannel(gameId) == <<"game", gameId>>

\* getGameRoom: the channel of the room whose gameState is the game, else the
\* channel of a matchmaking game
GetGameRoom(m, gameId) ==
  IF \E code \in DOMAIN m.rooms :
       m.rooms[code].gameState # NoGame /\ m.rooms[code].gameState.gameId = gameId
  THEN RoomChannel(CHOOSE code \in DOMAIN m.rooms :
                     m.rooms[code].gameState # NoGame
                     /\ m.rooms[code].gameState.gameId = gameId)
  ELSE GameChannel(gameId)

\* io.sockets.adapter.rooms.get(channel): the sockets in a channel
SocketsIn(sr, channel) == {s \in Sockets : <<channel, s>> \in sr}

\* getRoomInfo
GetRoomInfo(m, typed) ==
  IF ToUpperCase(typed) \in DOMAIN m.rooms THEN m.rooms[ToUpperCase(typed)] ELSE NoGame

\* the coordinator's fields that a game start changes
Coord == [m |-> Manager, games |-> activeGames, created |-> gamesCreated,
          fill |-> fillSessions]

\* startRoomGame(roomCode)
StartRoomGame(c, typed, t) ==
  LET room == GetRoomInfo(c.m, typed) IN
  IF room = NoGame \/ Len(room.players) # 2 THEN c
  ELSE LET gameId == c.created + 1
           started == StartGame(GameState(gameId, room.gameSettings, room.players, t), t)
       IN [m |-> IF started.result.success
                 THEN UpdateRoomStatus(c.m, typed, "playing") ELSE c.m,
           games |-> Put(c.games, gameId, started.g),
           created |-> gameId,
           fill |-> [c.fill EXCEPT ![ToUpperCase(typed)] = @ + 1]]

\* whether startRoomGame(typed) would construct a GameState
WouldStart(m, typed) ==
  LET room == GetRoomInfo(m, typed) IN room # NoGame /\ Len(room.players) = 2

\* lines 252: the room is full and no game has been started for it
ReadyToStart(room) ==
  room # NoGame /\ Len(room.players) = 2 /\ room.status \in {"waiting", "ready"}

CommitCoord(after) ==
  \E c \in {after} :
    /\ rooms' = c.m.rooms
    /\ playerRooms' = c.m.playerRooms
    /\ activeGames' = c.games
    /\ gamesCreated' = c.created
    /\ fillSessions' = c.fill

\* handleGameEnd: the timer that deletes the game from activeGames after
\* 300000 ms.  A later timer for the same game fires when the game is already
\* deleted and does nothing, so the games with a pending timer are what is kept.
HandleGameEnd(timers, gameId) == timers \cup {gameId}

\* whether the handler of a request calls handleGameEnd after the call r
GameEnded(op, r) ==
  /\ r.result.success
  /\ CASE op = "makeMove" -> r.g.status = "finished"
       [] op = "resign" -> TRUE
       [] op = "accept" -> r.g.status = "finished"
       [] OTHER -> FALSE

\* queue.delete(socket.id) on every queue
DeleteFromQueuesNone(queues, s) == queues
DeleteFromQueues(queues, s) ==
  [k \in DOMAIN queues |-> SelectSeq(queues[k], LAMBDA w : w # s)]

\* `${timeControl}_${rated}` of the join_matchmaking requests
QueueKeys == {"blitz_false", "rapid_false"}

\* the settings createMatchmakingGame passes, completed by the GameState constructor
MatchSettings == [initialTime |-> 300000, increment |-> 5000, rated |-> FALSE]

\* Array.from(queue).slice(0, 2)
FirstTwoNewestFirst(queue) == <<queue[Len(queue)], queue[1]>>
FirstTwo(queue) == SubSeq(queue, 1, 2)

\* createMatchmakingGame: the game is constructed and started, its players' sockets
\* join the game's channel
CreateMatchmakingGame(c, sr, playerIds, t) ==
  LET gameId == c.created + 1
      players == [i \in 1..Len(playerIds) |-> [id |-> playerIds[i]]]
      started == StartGame(GameState(gameId, MatchSettings, players, t), t)
  IN [c |-> [c EXCEPT !.games = Put(c.games, gameId, started.g), !.created = gameId],
      sr |-> sr \cup {<<GameChannel(gameId), playerIds[i]>> : i \in 1..Len(playerIds)}]

\* join_matchmaking up to the pairing: the queue exists, the socket is deleted from
\* every queue and added to the queue of the key
Enqueue(queues, key, s) ==
  LET q1 == IF key \in DOMAIN queues THEN queues ELSE Put(queues, key, << >>)
      q2 == DeleteFromQueues(q1, s)
  IN [q2 EXCEPT ![key] = Append(@, s)]

\* socket.on('join_matchmaking')
JoinMatchmaking(s, key) ==
  \E q \in {Enqueue(matchmakingQueues, key, s)} :
    /\ matchmakingQueue' = [matchmakingQueue EXCEPT ![s] = key]
    /\ IF Len(q[key]) >= 2
       THEN /\ gamesCreated < MaxGames
            /\ \E r \in {CreateMatchmakingGame(Coord, socketRooms, FirstTwo(q[key]), now)} :
                 /\ activeGames' = r.c.games
                 /\ gamesCreated' = r.c.created
                 /\ socketRooms' = r.sr
            /\ matchmakingQueues' =
                 [q EXCEPT ![key] = SelectSeq(@, LAMBDA w : \A i \in 1..2 :
                                                             w # FirstTwo(q[key])[i])]
       ELSE /\ matchmakingQueues' = q
            /\ UNCHANGED <<activeGames, gamesCreated, socketRooms>>
    /\ UNCHANGED <<now, registryVars, prev, startTimers, fillSessions, clockVars,
                   authVars, cleanupTimers>>

\* leave_matchmaking: the queues after queue.delete(socket.id) on the socket's queue
LeaveQueueKeep(queues, key, s) == queues
LeaveQueue(queues, key, s) ==
  IF key # "none" /\ key \in DOMAIN queues
  THEN [queues EXCEPT ![key] = SelectSeq(@, LAMBDA w : w # s)]
  ELSE queues

\* socket.on('leave_matchmaking')
LeaveMatchmaking(s) ==
  /\ matchmakingQueues' = LeaveQueue(matchmakingQueues, matchmakingQueue[s], s)
  /\ matchmakingQueue' = [matchmakingQueue EXCEPT ![s] = "none"]
  /\ UNCHANGED <<now, registryVars, prev, coordVars, clockVars, authVars, cleanupTimers>>

\* socket.on('create_room')
CreateRoomEvent(s, gameSettings, collisions, code) ==
  /\ CanDraw(Manager, collisions, code)
  /\ \E r \in {CreateRoom(Manager, s, gameSettings, collisions, code, now)} :
       /\ rooms' = r.m.rooms
       /\ playerRooms' = r.m.playerRooms
       /\ socketRooms' = IF r.result.success
                         THEN socketRooms \cup {<<RoomChannel(r.result.code), s>>}
                         ELSE socketRooms
       /\ fillSessions' = IF r.result.success
                          THEN [fillSessions EXCEPT ![r.result.code] = 0]
                          ELSE fillSessions
  /\ UNCHANGED <<now, prev, startTimers, activeGames, gamesCreated, clockVars, authVars, playVars>>

\* socket.on('join_room')
JoinRoomEvent(s, typed, isSpectator) ==
  \E r \in {JoinRoom(Manager, typed, s, isSpectator, now)} :
  LET channel == RoomChannel(typed)
      sr == socketRooms \cup {<<channel, s>>}
      room == GetRoomInfo(r.m, typed)
      filled == /\ r.result.role = "player" /\ ~r.result.seen.occupant
                /\ Len(room.players) = 2
  IN \E c0 \in {[Coord EXCEPT !.m = r.m,
                              !.fill = IF filled
                                       THEN [@ EXCEPT ![ToUpperCase(typed)] = 0] ELSE @]} :
     /\ UNCHANGED <<now, prev, clockVars, authVars, playVars>>
     /\ IF ~r.result.success
        THEN /\ CommitCoord(c0)
             /\ UNCHANGED <<socketRooms, startTimers>>
        ELSE /\ socketRooms' = sr
             /\ IF ReadyToStart(room)
                THEN IF Cardinality(SocketsIn(sr, channel)) >= 2
                     THEN /\ gamesCreated < MaxGames
                          /\ CommitCoord(StartRoomGame(c0, typed, now))
                          /\ UNCHANGED startTimers
                     ELSE /\ Len(startTimers) < MaxStartTimers
                          /\ CommitCoord(c0)
                          /\ startTimers' = Append(startTimers, typed)
                ELSE /\ CommitCoord(c0)
                     /\ UNCHANGED startTimers

\* the setTimeout callback of join_room (lines 265-273): both branches start the game
DelayedStart ==
  /\ startTimers # << >>
  /\ WouldStart(Manager, Head(startTimers)) => gamesCreated < MaxGames
  /\ CommitCoord(StartRoomGame(Coord, Head(startTimers), now))
  /\ startTimers' = Tail(startTimers)
  /\ UNCHANGED <<now, prev, socketRooms, clockVars, authVars, playVars>>

\* socket.on('leave_room')
LeaveRoomEvent(s) ==
  \E r \in {LeaveRoom(Manager, s, now)} :
  /\ rooms' = r.m.rooms
  /\ playerRooms' = r.m.playerRooms
  /\ socketRooms' = IF r.result.success /\ r.result.code # NoCode
                    THEN socketRooms \ {<<RoomChannel(r.result.code), s>>}
                    ELSE socketRooms
  /\ UNCHANGED <<now, prev, startTimers, activeGames, gamesCreated, fillSessions,
               clockVars, authVars, playVars>>

(***************************************************************************)
(* AuthManager (middleware/auth.js).  A method is an operator from the     *)
(* manager's fields a = [sessions, socketSessions] to the fields after the *)
(* call.  sessions is kept in insertion order; a sessionId (a uuid) is the *)
(* position of its session.                                                *)
(***************************************************************************)

Auth == [sessions |-> sessions, socketSessions |-> socketSessions]

\* lines 31-37: the first active session of the username, 0 if there is none
ActiveSessionOf(a, username) ==
  IF \E i \in 1..Len(a.sessions) :
       a.sessions[i].username = username /\ a.sessions[i].isActive
  THEN CHOOSE i \in 1..Len(a.sessions) :
         /\ a.sessions[i].username = username /\ a.sessions[i].isActive
         /\ \A j \in 1..(i - 1) :
              ~(a.sessions[j].username = username /\ a.sessions[j].isActive)
  ELSE 0

\* createSession: an active session of the username takes the new socket (the
\* mapping of its previous socket is left in socketSessions); else a new session
CreateSession(a, username, socketId) ==
  LET e == ActiveSessionOf(a, username) IN
  IF e # 0
  THEN [a |-> [sessions |-> [a.sessions EXCEPT ![e].socketId = socketId],
               socketSessions |-> Put(a.socketSessions, socketId, e)],
        sessionId |-> e, isReconnection |-> TRUE]
  ELSE [a |-> [sessions |-> Append(a.sessions, [username |-> username,
                                                socketId |-> socketId,
                                                isActive |-> TRUE,
                                                gamesPlayed |-> 0,
                                                lastGameResult |-> "none"]),
               socketSessions |-> Put(a.socketSessions, socketId, Len(a.sessions) + 1)],
        sessionId |-> Len(a.sessions) + 1, isReconnection |-> FALSE]

\* getSessionBySocket: the sessionId the socket maps to, 0 for null
GetSessionBySocket(a, socketId) ==
  IF socketId \in DOMAIN a.socketSessions THEN a.socketSessions[socketId] ELSE 0

\* handleDisconnect: the session is kept, inactive; the socket's mapping is deleted
HandleDisconnect(a, socketId) ==
  LET e == GetSessionBySocket(a, socketId) IN
  IF e = 0 THEN a
  ELSE [sessions |-> [a.sessions EXCEPT ![e].isActive = FALSE],
        socketSessions |-> Drop(a.socketSessions, {socketId})]

\* updateRating: one more game played, its outcome kept (the rating itself, a
\* number computed from both ratings, is left out)
UpdateRating(a, sessionId, gameResult) ==
  IF sessionId \in 1..Len(a.sessions)
  THEN [a EXCEPT !.sessions[sessionId].gamesPlayed = @ + 1,
                 !.sessions[sessionId].lastGameResult = gameResult]
  ELSE a

\* the score updatePlayerRatings gives a player
Outcome(game, player) ==
  IF game.result = player.color THEN "win"
  ELSE IF game.result # "draw" THEN "loss" ELSE "draw"

\* updatePlayerRatings: game.players.forEach, from player i on
RECURSIVE UpdatePlayerRatings(_, _, _)
UpdatePlayerRatings(a, game, i) ==
  IF i > Len(game.players) THEN a
  ELSE LET e == GetSessionBySocket(a, game.players[i].id) IN
       UpdatePlayerRatings(IF e # 0 THEN UpdateRating(a, e, Outcome(game, game.players[i]))
                           ELSE a,
                           game, i + 1)

\* handleGameEnd, lines 725-727: the ratings of a rated game that was not abandoned
\* are updated
EndRatings(a, game) ==
  IF game.settings.rated /\ game.result # "abandoned"
  THEN UpdatePlayerRatings(a, game, 1) ELSE a

(***************************************************************************)
(* Coordinator (server.js): connections, disconnections, the grace timer   *)
(***************************************************************************)

\* updatePlayerConnection on every active game
UpdateConnections(games, socketId, connected, t) ==
  [gameId \in DOMAIN games |-> UpdatePlayerConnection(games[gameId], socketId, connected, t)]

\* handleReconnection: the channels after the socket has joined its room's channel
ReconnectChannels(m, sr, s) ==
  IF s \in DOMAIN m.playerRooms /\ m.playerRooms[s] \in DOMAIN m.rooms
  THEN sr \cup {<<RoomChannel(m.playerRooms[s]), s>>}
  ELSE sr

\* a new connection: socketAuthMiddleware, then io.on('connection').  A grace timer
\* pending for a socket of the same username is marked as having seen a reconnection.
Connect(s, username) ==
  /\ conn[s].state = "new"
  /\ \E r \in {CreateSession(Auth, username, s)} :
       /\ sessions' = r.a.sessions
       /\ socketSessions' = r.a.socketSessions
       /\ socketRooms' = IF r.isReconnection
                         THEN ReconnectChannels(Manager, socketRooms, s) ELSE socketRooms
       /\ activeGames' = IF r.isReconnection
                         THEN UpdateConnections(activeGames, s, TRUE, now) ELSE activeGames
  /\ conn' = [conn EXCEPT ![s] = [state |-> "live", user |-> username]]
  /\ graceTimers' = [t \in DOMAIN graceTimers |->
                       IF conn[t].user = username
                       THEN [reconnected |-> TRUE] ELSE graceTimers[t]]
  /\ UNCHANGED <<now, registryVars, prev, startTimers, gamesCreated, fillSessions,
                 clockVars, playVars>>

\* socket.on('disconnect'): handleDisconnection; socket.io takes the socket out of
\* every channel
Disconnect(s) ==
  /\ conn[s].state = "live"
  /\ \E a \in {HandleDisconnect(Auth, s)} :
       /\ sessions' = a.sessions
       /\ socketSessions' = a.socketSessions
  /\ activeGames' = UpdateConnections(activeGames, s, FALSE, now)
  /\ socketRooms' = {p \in socketRooms : p[2] # s}
  /\ graceTimers' = Put(graceTimers, s, [reconnected |-> FALSE])
  /\ conn' = [conn EXCEPT ![s].state = "gone"]
  /\ matchmakingQueues' = DeleteFromQueues(matchmakingQueues, s)
  /\ UNCHANGED <<now, registryVars, prev, startTimers, gamesCreated, fillSessions,
                 clockVars, matchmakingQueue, cleanupTimers>>

\* lines 587-588: the socket has no session, or its session is not active
NotReconnectedNever(a, s) == FALSE
NotReconnected(a, s) ==
  GetSessionBySocket(a, s) = 0 \/ ~a.sessions[GetSessionBySocket(a, s)].isActive

\* the setTimeout callback of handleDisconnection, 30 s after the disconnection
GraceTimer(s) ==
  /\ s \in DOMAIN graceTimers
  /\ \E m \in {IF NotReconnected(Auth, s) THEN LeaveRoom(Manager, s, now).m ELSE Manager} :
       /\ rooms' = m.rooms
       /\ playerRooms' = m.playerRooms
  /\ graceTimers' = Drop(graceTimers, {s})
  /\ UNCHANGED <<now, prev, coordVars, clockVars, conn, sessions, socketSessions,
                 playVars>>

(***************************************************************************)
(* The room registry on its own: createRoom / joinRoom / leaveRoom calls   *)
(* in any order, each answered before the next is handled.                 *)
(***************************************************************************)

\* no socket has connected yet: the AuthManager is as constructed, no queue and no
\* clean-up timer exists
NoConnections ==
  /\ conn = [s \in Sockets |-> [state |-> "new", user |-> "none"]]
  /\ sessions = << >>
  /\ socketSessions = << >>
  /\ graceTimers = << >>
  /\ matchmakingQueues = << >>
  /\ matchmakingQueue = [s \in Sockets |-> "none"]
  /\ cleanupTimers = {}

Init ==
  /\ now = 0
  /\ rooms = << >>
  /\ playerRooms = << >>
  /\ resp = NoAnswer
  /\ prev = NoAnswer
  /\ socketRooms = {}
  /\ startTimers = << >>
  /\ activeGames = << >>
  /\ gamesCreated = 0
  /\ fillSessions = [c \in Codes |-> 0]
  /\ turnStart = << >>
  /\ timedOut = << >>
  /\ NoConnections

\* the manager's fields and the answer after a call
Commit(call) ==
  \E r \in {call} :
    /\ rooms' = r.m.rooms
    /\ playerRooms' = r.m.playerRooms
    /\ prev' = resp
    /\ resp' = r.result
    /\ UNCHANGED <<now, coordVars, clockVars, authVars, playVars>>

CreateRoomReq ==
  \E s \in Sockets, gs \in RoomSettings, k \in 0..MaxAttempts, c \in RegistryCodes :
    /\ CanDraw(Manager, k, c)
    /\ Commit(CreateRoom(Manager, s, gs, k, c, now))

JoinRoomReq ==
  \E s \in Sockets, c \in RegistryTyped, sp \in BOOLEAN :
    Commit(JoinRoom(Manager, c, s, sp, now))

LeaveRoomReq ==
  \E s \in Sockets : Commit(LeaveRoom(Manager, s, now))

\* more than 24 h pass without a request
IdlePeriod ==
  /\ now < MaxIdlePeriods * (ExpirationTime + 1)
  /\ now' = now + ExpirationTime + 1
  /\ UNCHANGED <<registryVars, resp, prev, coordVars, clockVars, authVars, playVars>>

Next == CreateRoomReq \/ JoinRoomReq \/ LeaveRoomReq \/ IdlePeriod

Spec == Init /\ [][Next]_vars

(***************************************************************************)
(* The room registry with two codes in use: createRoom with the codes it   *)
(* draws, joinRoom with the code as typed, leaveRoom, and idle days.  What *)
(* a request finds is kept with its answer.                                *)
(***************************************************************************)

\* the sockets whose requests reach the registry here
CodeSockets == {"s1", "s2"}

\* the values generateRoomCode returns in one createRoom call: k times one code,
\* then another, for no repetition, one, and as many as the loop allows or more
DrawSeqs ==
  {[i \in 1..(MaxAttempts + 1) |-> IF i <= k THEN d ELSE c] :
     k \in {0, 1, MaxAttempts - 1, MaxAttempts, MaxAttempts + 1},
     d \in Codes, c \in Codes}

\* the code without the case of its letters
CaseFold(c) == IF c = "AB12" THEN "ab12" ELSE IF c = "CD34" THEN "cd34" ELSE c

\* the live rooms a typed code names whatever the case of its letters, those of
\* them that are idle for more than expirationTime, and their occupants
SeenTyped(m, typed, t) ==
  LET live == {c \in DOMAIN m.rooms : CaseFold(c) = CaseFold(typed)} IN
  [live |-> live,
   expired |-> {c \in live : IsExpired(m.rooms[c], t)},
   occupants |-> UNION {Occupants(m.rooms[c]) : c \in live}]

\* the manager's fields after a call, and its answer with what it found
CommitTyped(call, typed) ==
  \E r \in {call} :
    /\ rooms' = r.m.rooms
    /\ playerRooms' = r.m.playerRooms
    /\ resp' = [op |-> r.result.op, id |-> r.result.id, typed |-> typed,
                code |-> r.result.code, success |-> r.result.success,
                error |-> r.result.error, seen |-> SeenTyped(Manager, typed, now)]
    /\ UNCHANGED <<now, prev, coordVars, clockVars, authVars, playVars>>

CreateDrawn ==
  \E s \in CodeSockets, gs \in RoomSettings, draws \in DrawSeqs :
    \E d \in {DrawLoop(Manager, draws, 0)} :
      CommitTyped(CreateRoom(Manager, s, gs, d.attempts, d.code, now), d.code)

JoinTyped ==
  \E s \in CodeSockets, c \in RegistryTyped, sp \in BOOLEAN :
    CommitTyped(JoinRoom(Manager, c, s, sp, now), c)

LeaveIndexed ==
  \E s \in CodeSockets :
    CommitTyped(LeaveRoom(Manager, s, now),
                IF s \in DOMAIN playerRooms THEN playerRooms[s] ELSE NoCode)

\* more than 24 h pass without a request
IdleDay ==
  /\ now < MaxIdlePeriods * (ExpirationTime + 1)
  /\ now' = now + ExpirationTime + 1
  /\ resp' = NoAnswer
  /\ UNCHANGED <<registryVars, prev, coordVars, clockVars, authVars, playVars>>

NextCodes == CreateDrawn \/ JoinTyped \/ LeaveIndexed \/ IdleDay

SpecCodes == Init /\ [][NextCodes]_vars

(***************************************************************************)
(* The coordinator: the room events of the sockets and the delayed start   *)
(***************************************************************************)

CreateRoomEvt ==
  \E s \in Sockets, gs \in RoomSettings, k \in 0..MaxAttempts, c \in RegistryCodes :
    /\ CreateRoomEvent(s, gs, k, c)
    /\ UNCHANGED resp

JoinRoomEvt ==
  \E s \in Sockets, c \in CoordTyped, sp \in BOOLEAN :
    /\ JoinRoomEvent(s, c, sp)
    /\ UNCHANGED resp

LeaveRoomEvt == \E s \in Sockets : LeaveRoomEvent(s) /\ UNCHANGED resp

DelayedStartFires == DelayedStart /\ UNCHANGED resp

NextCoord == CreateRoomEvt \/ JoinRoomEvt \/ LeaveRoomEvt \/ DelayedStartFires

SpecCoord == Init /\ [][NextCoord]_vars

(***************************************************************************)
(* One session on its own: the game a coordinator handler has constructed  *)
(* from two players, its requests, its clock callbacks and the passing of  *)
(* time.  startRoomGame and createMatchmakingGame call startGame in the    *)
(* handler that constructs the game, so no request and no time comes       *)
(* before startGame.                                                       *)
(***************************************************************************)

TheGame == 1

InitGame ==
  /\ now = 0
  /\ rooms = << >>
  /\ playerRooms = << >>
  /\ resp = NoAnswer
  /\ prev = NoAnswer
  /\ socketRooms = {}
  /\ startTimers = << >>
  /\ \E gs \in GameSettings :
       activeGames = Put(<< >>, TheGame,
                         GameState(TheGame, gs, <<[id |-> "s1"], [id |-> "s2"]>>, 0))
  /\ gamesCreated = 1
  /\ fillSessions = [c \in Codes |-> 0]
  /\ turnStart = Put(<< >>, TheGame, 0)
  /\ timedOut = Put(<< >>, TheGame, "none")
  /\ NoConnections

Started(g) == g.status # "waiting"

\* the timeRemaining of the side to move
MoverRemaining(g) == g.players[FindByColor(g, TurnColor(g.chess))].timeRemaining

\* the fields of a game that a refused move must leave alone
SameGame(g, h) ==
  /\ g.chess = h.chess
  /\ \A i \in 1..Len(g.players) : g.players[i].timeRemaining = h.players[i].timeRemaining
  /\ g.timers = h.timers
  /\ g.lastMoveTime = h.lastMoveTime
  /\ g.moveHistory = h.moveHistory
  /\ g.status = h.status

\* what a move request saw: the game before it was handled, the verdict of chess.js
\* on the move ("none" when chess.js was not asked), whether the timer callback that
\* uses up the requester's clock was due, and whether the call left the game as it was
SeenGame(gameId, id, verdict, after) ==
  LET g == activeGames[gameId]
      i == FindById(g, id)
      toMove == i # 0 /\ g.players[i].color = TurnColor(g.chess)
  IN [status |-> g.status,
      player |-> i # 0,
      toMove |-> toMove,
      verdict |-> IF g.status = "playing" /\ toMove THEN verdict ELSE "none",
      lastMoveTime |-> g.lastMoveTime,
      turnStart |-> turnStart[gameId],
      timedOut |-> timedOut[gameId],
      expiryDue |-> /\ i # 0
                    /\ g.timers[g.players[i].color] # NoTimer
                    /\ g.timers[g.players[i].color] <= now
                    /\ g.players[i].timeRemaining > 0
                    /\ g.players[i].timeRemaining <= TickMs,
      untouched |-> SameGame(g, after)]

GameAnswer(op, id, r, seen) ==
  Answer(op, id, NoCode, FALSE, r.result.success, "none", NoColor, r.result.error, seen)

\* the game after a call, and the remaining time the next turn starts with
CommitGame(gameId, op, call) ==
  \E r \in {call} :
    /\ activeGames' = [activeGames EXCEPT ![gameId] = r.g]
    /\ turnStart' = IF r.g.chess.ply # activeGames[gameId].chess.ply \/ op = "startGame"
                    THEN [turnStart EXCEPT ![gameId] = MoverRemaining(r.g)]
                    ELSE turnStart
    /\ cleanupTimers' = IF GameEnded(op, r)
                        THEN HandleGameEnd(cleanupTimers, gameId)
                        ELSE cleanupTimers
    /\ sessions' = IF GameEnded(op, r) THEN EndRatings(Auth, r.g).sessions ELSE sessions
    /\ UNCHANGED <<now, registryVars, prev, socketRooms, startTimers, gamesCreated,
                   fillSessions, timedOut, conn, socketSessions, graceTimers,
                   matchmakingQueues, matchmakingQueue>>

StartGameCall ==
  \E gameId \in DOMAIN activeGames :
    /\ ~Started(activeGames[gameId])
    /\ CommitGame(gameId, "startGame", StartGame(activeGames[gameId], now))
    /\ resp' = NoAnswer

\* make_move, its answer kept
MakeMoveReq ==
  \E gameId \in DOMAIN activeGames, id \in Sockets, verdict \in MoveVerdicts :
    /\ Started(activeGames[gameId])
    /\ activeGames[gameId].chess.ply < MaxPly
    /\ \E r \in {MakeMove(activeGames[gameId], id, verdict, now)} :
         /\ CommitGame(gameId, "makeMove", r)
         /\ resp' = GameAnswer("makeMove", id, r, SeenGame(gameId, id, verdict, r.g))

ResignReq ==
  \E gameId \in DOMAIN activeGames, id \in Sockets :
    /\ Started(activeGames[gameId])
    /\ CommitGame(gameId, "resign", Resign(activeGames[gameId], id))
    /\ resp' = NoAnswer

DrawReq ==
  \E gameId \in DOMAIN activeGames, id \in Sockets, action \in {"offer", "accept"} :
    /\ Started(activeGames[gameId])
    /\ CommitGame(gameId, action, HandleDraw(activeGames[gameId], id, action))
    /\ resp' = NoAnswer

\* handleDisconnection / handleReconnection: updatePlayerConnection answers nothing
ConnectionUpdate ==
  \E gameId \in DOMAIN activeGames, id \in Sockets, connected \in BOOLEAN :
    /\ Started(activeGames[gameId])
    /\ activeGames' = [activeGames EXCEPT
                         ![gameId] = UpdatePlayerConnection(@, id, connected, now)]
    /\ resp' = NoAnswer
    /\ UNCHANGED <<now, registryVars, prev, socketRooms, startTimers, gamesCreated,
                   fillSessions, clockVars, authVars, playVars>>

\* an interval callback that is due runs
ClockTick ==
  \E gameId \in DOMAIN activeGames, color \in {"white", "black"} :
    LET g == activeGames[gameId] IN
    /\ g.timers[color] # NoTimer
    /\ g.timers[color] <= now
    /\ \E after \in {TimerTick(g, color, now)} :
         /\ activeGames' = [activeGames EXCEPT ![gameId] = after]
         /\ timedOut' =
              IF /\ timedOut[gameId] = "none"
                 /\ FindByColor(g, color) # 0
                 /\ g.players[FindByColor(g, color)].timeRemaining > 0
                 /\ after.players[FindByColor(g, color)].timeRemaining = 0
              THEN [timedOut EXCEPT ![gameId] = color]
              ELSE timedOut
    /\ resp' = NoAnswer
    /\ UNCHANGED <<now, registryVars, prev, socketRooms, startTimers, gamesCreated,
                   fillSessions, turnStart, authVars, playVars>>

\* time passes, once every callback that is due has run
TimePasses ==
  /\ now + TimeStep <= MaxClockSteps * TimeStep
  /\ \A gameId \in DOMAIN activeGames :
       /\ Started(activeGames[gameId])
       /\ \A color \in {"white", "black"} :
            \/ activeGames[gameId].timers[color] = NoTimer
            \/ activeGames[gameId].timers[color] > now
  /\ now' = now + TimeStep
  /\ resp' = NoAnswer
  /\ UNCHANGED <<registryVars, prev, coordVars, clockVars, authVars, playVars>>

NextGame ==
  \/ StartGameCall \/ MakeMoveReq \/ ResignReq \/ DrawReq \/ ConnectionUpdate
  \/ ClockTick \/ TimePasses

SpecGame == InitGame /\ [][NextGame]_vars

(***************************************************************************)
(* The same session, with the answers of resign and draw_offer kept        *)
(* instead of the answers of make_move.                                    *)
(***************************************************************************)

\* what a resign or draw_offer request saw before it was handled
SeenEnd(gameId, id) ==
  LET g == activeGames[gameId]
      o == Opponent(g, id)
  IN [status |-> g.status,
      player |-> FindById(g, id) # 0,
      toMove |-> FindById(g, id) # 0
                   /\ g.players[FindById(g, id)].color = TurnColor(g.chess),
      result |-> g.result,
      endReason |-> g.endReason,
      offered |-> o # 0 /\ g.players[o].drawOffered]

EndAnswer(op, id, r, seen) ==
  [op |-> op, id |-> id, success |-> r.result.success, error |-> r.result.error,
   seen |-> seen]

\* make_move, its answer dropped
MoveCall ==
  \E gameId \in DOMAIN activeGames, id \in Sockets, verdict \in MoveVerdicts :
    /\ Started(activeGames[gameId])
    /\ activeGames[gameId].chess.ply < MaxPly
    /\ CommitGame(gameId, "makeMove", MakeMove(activeGames[gameId], id, verdict, now))
    /\ resp' = NoAnswer

\* resign, its answer kept
ResignCall ==
  \E gameId \in DOMAIN activeGames, id \in Sockets :
    /\ Started(activeGames[gameId])
    /\ \E r \in {Resign(activeGames[gameId], id)} :
         /\ CommitGame(gameId, "resign", r)
         /\ resp' = EndAnswer("resign", id, r, SeenEnd(gameId, id))

\* draw_offer, the answer of an accept kept
DrawCall ==
  \E gameId \in DOMAIN activeGames, id \in Sockets, action \in {"offer", "accept"} :
    /\ Started(activeGames[gameId])
    /\ \E r \in {HandleDraw(activeGames[gameId], id, action)} :
         /\ CommitGame(gameId, action, r)
         /\ resp' = IF action = "accept"
                    THEN EndAnswer(action, id, r, SeenEnd(gameId, id))
                    ELSE NoAnswer

\* a timer period passes, once every callback that is due has run
PeriodPasses ==
  /\ now + TickMs <= MaxPeriods * TickMs
  /\ \A gameId \in DOMAIN activeGames :
       /\ Started(activeGames[gameId])
       /\ \A color \in {"white", "black"} :
            \/ activeGames[gameId].timers[color] = NoTimer
            \/ activeGames[gameId].timers[color] > now
  /\ now' = now + TickMs
  /\ resp' = NoAnswer
  /\ UNCHANGED <<registryVars, prev, coordVars, clockVars, authVars, playVars>>

NextEnd ==
  \/ StartGameCall \/ MoveCall \/ ResignCall \/ DrawCall \/ ConnectionUpdate
  \/ ClockTick \/ PeriodPasses

SpecEnd == InitGame /\ [][NextEnd]_vars

(***************************************************************************)
(* A rated session: two connected sockets paired by join_matchmaking with  *)
(* rated set, then their make_move, resign and draw_offer requests.        *)
(***************************************************************************)

\* the settings of a game paired from a rated queue
RatedSettings == [MatchSettings EXCEPT !.rated = TRUE]

\* the sockets paired
RatedPlayers == <<"s1", "s2">>

\* no request is handled once a session counts this many games played
MaxGamesPlayed == 2

\* s1 and s2 have connected under their names and have been paired
InitRated ==
  /\ now = 0
  /\ rooms = << >>
  /\ playerRooms = << >>
  /\ resp = NoAnswer
  /\ prev = NoAnswer
  /\ startTimers = << >>
  /\ fillSessions = [c \in Codes |-> 0]
  /\ \E a \in {CreateSession(CreateSession([sessions |-> << >>, socketSessions |-> << >>],
                                            HandshakeUser["s1"], "s1").a,
                              HandshakeUser["s2"], "s2").a} :
       /\ sessions = a.sessions
       /\ socketSessions = a.socketSessions
  /\ conn = [s \in Sockets |-> IF s \in {"s1", "s2"}
                                THEN [state |-> "live", user |-> HandshakeUser[s]]
                                ELSE [state |-> "new", user |-> "none"]]
  /\ graceTimers = << >>
  /\ activeGames =
       Put(<< >>, TheGame,
           StartGame(GameState(TheGame, RatedSettings,
                               [i \in 1..2 |-> [id |-> RatedPlayers[i]]], 0), 0).g)
  /\ gamesCreated = TheGame
  /\ socketRooms = {<<GameChannel(TheGame), RatedPlayers[i]>> : i \in 1..2}
  /\ turnStart = Put(<< >>, TheGame, RatedSettings.initialTime)
  /\ timedOut = Put(<< >>, TheGame, "none")
  /\ matchmakingQueues = Put(<< >>, "blitz_true", << >>)
  /\ matchmakingQueue = [s \in Sockets |-> IF s \in {"s1", "s2"} THEN "blitz_true"
                                           ELSE "none"]
  /\ cleanupTimers = {}

RatingsOpen == \A e \in 1..Len(sessions) : sessions[e].gamesPlayed < MaxGamesPlayed

RatedMove == RatingsOpen /\ MoveCall

RatedResign == RatingsOpen /\ ResignCall

RatedDraw == RatingsOpen /\ DrawCall

NextRated == RatedMove \/ RatedResign \/ RatedDraw

SpecRated == InitRated /\ [][NextRated]_vars

(***************************************************************************)
(* The coordinator with connections: sockets connect under a display name, *)
(* send room events while connected, disconnect, and their grace timers    *)
(* fire.  A socket id is used by one connection only.                      *)
(***************************************************************************)

Live(s) == conn[s].state = "live"

\* what the grace timer of socket s finds when it fires
SeenGrace(s) ==
  LET code == IF s \in DOMAIN playerRooms THEN playerRooms[s] ELSE NoCode
      known == code \in DOMAIN rooms
  IN [code |-> code,
      wasPlayer |-> known /\ HasPlayer(rooms[code], s),
      status |-> IF known THEN rooms[code].status ELSE "none",
      reconnected |-> graceTimers[s].reconnected]

\* what createSession finds for the username, and what it answers
SeenRegister(a, username, socketId) ==
  [known |-> Len(a.sessions),
   notLive |-> {e \in 1..Len(a.sessions) :
                  a.sessions[e].username = username /\ ~a.sessions[e].isActive},
   sessionId |-> CreateSession(a, username, socketId).sessionId,
   isReconnection |-> CreateSession(a, username, socketId).isReconnection]

\* a socket connects; the answer of createSession is kept
ConnectEvt ==
  \E s \in Sockets :
    /\ Connect(s, HandshakeUser[s])
    /\ resp' = [op |-> "connect", id |-> s,
                seen |-> SeenRegister(Auth, HandshakeUser[s], s)]

DisconnectEvt ==
  \E s \in Sockets : Disconnect(s) /\ resp' = NoAnswer

\* the grace timer of a socket fires; what it found is kept
GraceTimerFires ==
  \E s \in DOMAIN graceTimers :
    /\ GraceTimer(s)
    /\ resp' = [op |-> "graceTimer", id |-> s, seen |-> SeenGrace(s)]

RoomCreated ==
  \E s \in Sockets, gs \in RoomSettings, c \in RegistryCodes :
    /\ Live(s)
    /\ CreateRoomEvent(s, gs, 0, c)
    /\ resp' = NoAnswer

RoomJoined ==
  \E s \in Sockets, c \in ConnTyped, sp \in BOOLEAN :
    /\ Live(s)
    /\ gamesCreated < MaxConnGames
    /\ JoinRoomEvent(s, c, sp)
    /\ resp' = NoAnswer

\* what leave_room of socket s finds: the room the index names, the socket's
\* role in it and its status
SeenLeave(s) ==
  LET code == IF s \in DOMAIN playerRooms THEN playerRooms[s] ELSE NoCode
      known == code \in DOMAIN rooms
  IN [code |-> code,
      known |-> known,
      wasPlayer |-> known /\ HasPlayer(rooms[code], s),
      status |-> IF known THEN rooms[code].status ELSE "none"]

\* leave_room; what it found is kept
RoomLeft ==
  \E s \in Sockets :
    /\ Live(s)
    /\ LeaveRoomEvent(s)
    /\ resp' = [op |-> "leave_room", id |-> s, seen |-> SeenLeave(s)]

StartDelayed == gamesCreated < MaxConnGames /\ DelayedStart /\ resp' = NoAnswer

NextConn ==
  \/ ConnectEvt \/ DisconnectEvt \/ GraceTimerFires
  \/ RoomCreated \/ RoomJoined \/ RoomLeft \/ StartDelayed

SpecConn == Init /\ [][NextConn]_vars

(***************************************************************************)
(* The coordinator with a session played: a room is created and joined,    *)
(* the session started for it takes make_move, resign and draw_offer       *)
(* events, its clock callbacks run, and the clean-up timers of             *)
(* handleGameEnd fire.                                                     *)
(***************************************************************************)

\* the code generateRoomCode draws, and the code join_room is sent with
PlayCodes == {"AB12"}

\* the ids of the players of a game
GamePlayers(g) == {g.players[i].id : i \in 1..Len(g.players)}

\* what the make_move handler emitted move_made to
SeenEmit(gameId) ==
  [players |-> GamePlayers(activeGames[gameId]),
   channel |-> GetGameRoom(Manager, gameId),
   receivers |-> SocketsIn(socketRooms, GetGameRoom(Manager, gameId))]

\* a game event: the GameState call, then handleGameEnd where the handler calls it
GameEvent(gameId, op, call) ==
  \E r \in {call} :
    /\ activeGames' = [activeGames EXCEPT ![gameId] = r.g]
    /\ cleanupTimers' = IF GameEnded(op, r)
                        THEN HandleGameEnd(cleanupTimers, gameId)
                        ELSE cleanupTimers
    /\ sessions' = IF GameEnded(op, r) THEN EndRatings(Auth, r.g).sessions ELSE sessions
    /\ UNCHANGED <<now, registryVars, prev, socketRooms, startTimers, gamesCreated,
                   fillSessions, clockVars, conn, socketSessions, graceTimers,
                   matchmakingQueues, matchmakingQueue>>

PlayRoomCreated ==
  \E s \in Sockets, gs \in RoomSettings, c \in PlayCodes :
    CreateRoomEvent(s, gs, 0, c) /\ resp' = NoAnswer

PlayRoomJoined ==
  \E s \in Sockets, c \in PlayCodes :
    /\ gamesCreated < MaxConnGames
    /\ JoinRoomEvent(s, c, FALSE)
    /\ resp' = NoAnswer

\* make_move; what was emitted is kept with the answer
MoveEvt ==
  \E gameId \in DOMAIN activeGames, id \in Sockets, verdict \in MoveVerdicts :
    /\ activeGames[gameId].chess.ply < MaxPly
    /\ \E r \in {MakeMove(activeGames[gameId], id, verdict, now)} :
         /\ GameEvent(gameId, "makeMove", r)
         /\ resp' = [op |-> "make_move", id |-> id, gameId |-> gameId,
                     success |-> r.result.success, seen |-> SeenEmit(gameId)]

ResignEvt ==
  \E gameId \in DOMAIN activeGames, id \in Sockets :
    /\ GameEvent(gameId, "resign", Resign(activeGames[gameId], id))
    /\ resp' = NoAnswer

DrawEvt ==
  \E gameId \in DOMAIN activeGames, id \in Sockets, action \in {"offer", "accept"} :
    /\ GameEvent(gameId, action, HandleDraw(activeGames[gameId], id, action))
    /\ resp' = NoAnswer

\* an interval callback that is due runs
PlayTick ==
  \E gameId \in DOMAIN activeGames, color \in {"white", "black"} :
    /\ activeGames[gameId].timers[color] # NoTimer
    /\ activeGames[gameId].timers[color] <= now
    /\ activeGames' = [activeGames EXCEPT ![gameId] = TimerTick(@, color, now)]
    /\ resp' = NoAnswer
    /\ UNCHANGED <<now, registryVars, prev, socketRooms, startTimers, gamesCreated,
                   fillSessions, clockVars, authVars, playVars>>

\* a timer period passes, once every interval callback that is due has run
PlayPeriod ==
  /\ now + TickMs <= MaxClockSteps * TimeStep
  /\ \A gameId \in DOMAIN activeGames, color \in {"white", "black"} :
       \/ activeGames[gameId].timers[color] = NoTimer
       \/ activeGames[gameId].timers[color] > now
  /\ now' = now + TickMs
  /\ resp' = NoAnswer
  /\ UNCHANGED <<registryVars, prev, coordVars, clockVars, authVars, playVars>>

\* the setTimeout callback of handleGameEnd, 300000 ms after the handler that
\* called it; the status of the game it deletes is kept
CleanupFires ==
  \E gameId \in cleanupTimers :
    /\ activeGames' = Drop(activeGames, {gameId})
    /\ cleanupTimers' = cleanupTimers \ {gameId}
    /\ resp' = [op |-> "cleanup", id |-> gameId,
                seen |-> [status |-> activeGames[gameId].status]]
    /\ UNCHANGED <<now, registryVars, prev, socketRooms, startTimers, gamesCreated,
                   fillSessions, clockVars, authVars, matchmakingQueues,
                   matchmakingQueue>>

NextPlay ==
  \/ PlayRoomCreated \/ PlayRoomJoined \/ MoveEvt \/ ResignEvt \/ DrawEvt
  \/ PlayTick \/ PlayPeriod \/ CleanupFires

SpecPlay == Init /\ [][NextPlay]_vars

(***************************************************************************)
(* startGame on its own: a GameState constructed from any list of up to    *)
(* three players and any of the settings in use, then started, as the      *)
(* handler that constructs a game does.                                    *)
(***************************************************************************)

\* no more players than this are passed to the constructor
MaxListed == 3

PlayerLists == UNION {[1..n -> [id : Sockets]] : n \in 0..MaxListed}

StartSettings == GameSettings \cup RoomSettings \cup {MatchSettings}

InitStart ==
  /\ now = 0
  /\ rooms = << >>
  /\ playerRooms = << >>
  /\ resp = NoAnswer
  /\ prev = NoAnswer
  /\ socketRooms = {}
  /\ startTimers = << >>
  /\ \E gs \in StartSettings, players \in PlayerLists :
       activeGames = Put(<< >>, TheGame, GameState(TheGame, gs, players, 0))
  /\ gamesCreated = 1
  /\ fillSessions = [c \in Codes |-> 0]
  /\ turnStart = Put(<< >>, TheGame, 0)
  /\ timedOut = Put(<< >>, TheGame, "none")
  /\ NoConnections

\* game.startGame() on the game just constructed; the answer is kept with the
\* status and the number of players found
StartCalled ==
  /\ resp.op = "none"
  /\ \E r \in {StartGame(activeGames[TheGame], now)} :
       /\ activeGames' = [activeGames EXCEPT ![TheGame] = r.g]
       /\ resp' = [op |-> "startGame", success |-> r.result.success,
                   seen |-> [status |-> activeGames[TheGame].status,
                             count |-> Len(activeGames[TheGame].players)]]
  /\ UNCHANGED <<now, registryVars, prev, socketRooms, startTimers, gamesCreated,
                 fillSessions, clockVars, authVars, playVars>>

NextStart == StartCalled

SpecStart == InitStart /\ [][NextStart]_vars

(***************************************************************************)
(* The chat of one session: chat_message events of players and others,     *)
(* numbered in the order they arrive.                                      *)
(***************************************************************************)

\* no more chat messages than this are sent
MaxChat == 55

\* the number of the next message to arrive
NextMessage(g) ==
  IF g.chatHistory = << >> THEN 1 ELSE g.chatHistory[Len(g.chatHistory)] + 1

\* socket.on('chat_message'); the answer is kept
ChatSent ==
  \E id \in Sockets, type \in {"chat", "system"} :
    /\ NextMessage(activeGames[TheGame]) <= MaxChat
    /\ \E r \in {AddChatMessage(activeGames[TheGame], id,
                                 NextMessage(activeGames[TheGame]), type)} :
         /\ activeGames' = [activeGames EXCEPT ![TheGame] = r.g]
         /\ resp' = [op |-> "chat_message", id |-> id, success |-> r.result.success,
                     message |-> NextMessage(activeGames[TheGame])]
    /\ UNCHANGED <<now, registryVars, prev, socketRooms, startTimers, gamesCreated,
                   fillSessions, clockVars, authVars, playVars>>

NextChat == ChatSent

SpecChat == InitGame /\ [][NextChat]_vars

(***************************************************************************)
(* Matchmaking: connected sockets send join_matchmaking and                *)
(* leave_matchmaking in any order; what a request found is kept.           *)
(***************************************************************************)

\* the buckets that hold socket s
BucketsOf(queues, s) ==
  {k \in DOMAIN queues : \E i \in 1..Len(queues[k]) : queues[k][i] = s}

\* what a matchmaking request finds
SeenQueues(s, key) ==
  [queues |-> matchmakingQueues,
   others |-> IF key \in DOMAIN matchmakingQueues
              THEN SelectSeq(matchmakingQueues[key], LAMBDA w : w # s) ELSE << >>,
   created |-> gamesCreated]

MatchJoin ==
  \E s \in Sockets, key \in QueueKeys :
    /\ JoinMatchmaking(s, key)
    /\ resp' = [op |-> "join_matchmaking", id |-> s, key |-> key, success |-> TRUE,
                seen |-> SeenQueues(s, key)]

MatchLeave ==
  \E s \in Sockets :
    /\ LeaveMatchmaking(s)
    /\ resp' = [op |-> "leave_matchmaking", id |-> s, key |-> matchmakingQueue[s],
                success |-> TRUE, seen |-> SeenQueues(s, matchmakingQueue[s])]

NextMatch == MatchJoin \/ MatchLeave

SpecMatch == Init /\ [][NextMatch]_vars

(***************************************************************************)
(* Matchmaking with connections: sockets connect, send join_matchmaking    *)
(* and leave_matchmaking while connected, and disconnect.  No socket is in  *)
(* a room, so the grace timers, which only call leaveRoom, are left to     *)
(* stand.                                                                  *)
(***************************************************************************)

QueueConnect ==
  \E s \in Sockets : Connect(s, HandshakeUser[s]) /\ resp' = NoAnswer

\* socket.on('disconnect'); the buckets it found the socket in are kept
QueueDisconnect ==
  \E s \in Sockets :
    /\ Disconnect(s)
    /\ resp' = [op |-> "disconnect", id |-> s, key |-> matchmakingQueue[s],
                success |-> TRUE, seen |-> SeenQueues(s, matchmakingQueue[s])]

QueueJoin ==
  \E s \in Sockets, key \in QueueKeys :
    /\ conn[s].state = "live"
    /\ gamesCreated < MaxConnGames
    /\ JoinMatchmaking(s, key)
    /\ resp' = [op |-> "join_matchmaking", id |-> s, key |-> key, success |-> TRUE,
                seen |-> SeenQueues(s, key)]

QueueLeave ==
  \E s \in Sockets :
    /\ conn[s].state = "live"
    /\ LeaveMatchmaking(s)
    /\ resp' = [op |-> "leave_matchmaking", id |-> s, key |-> matchmakingQueue[s],
                success |-> TRUE, seen |-> SeenQueues(s, matchmakingQueue[s])]

NextQueue == QueueConnect \/ QueueDisconnect \/ QueueJoin \/ QueueLeave

SpecQueue == Init /\ [][NextQueue]_vars

(***************************************************************************)
(* Claims about the room registry                                          *)
(***************************************************************************)

Colors(room) == {room.players[i].color : i \in 1..Len(room.players)}

\* two joinRoom calls handled one after the other, both asking for a player
\* slot of the same room, from two distinct sockets, the first finding one player
RacingJoins ==
  /\ prev.op = "joinRoom" /\ resp.op = "joinRoom"
  /\ prev.code = resp.code /\ prev.id # resp.id
  /\ ~prev.spectator /\ ~resp.spectator
  /\ prev.seen.count = 1

OnePlayerOneSpectator ==
  /\ prev.success /\ resp.success
  /\ \/ prev.role = "player" /\ resp.role = "spectator"
     \/ prev.role = "spectator" /\ resp.role = "player"

PlayerCap == \A c \in DOMAIN rooms : Len(rooms[c].players) <= MaxPlayers

\* C1 as stated: no room ever holds more than 2 players, and of two racing
\* player joins from distinct sockets at a one-player room exactly one is answered
\* player and the other spectator, neither rejected.
C1_AnyTwoIdentities == PlayerCap /\ (RacingJoins => OnePlayerOneSpectator)

\* C1 as amended: the same, for a live room and two sockets that do not occupy
\* the room yet (a socket that is already a player gets its player slot back).
C1_RaceForLastSlot ==
  /\ PlayerCap
  /\ (RacingJoins /\ ~prev.seen.occupant /\ ~resp.seen.occupant /\ ~prev.seen.expired
        /\ ~resp.seen.expired)
       => OnePlayerOneSpectator

C1_Witness ==
  /\ RacingJoins /\ ~prev.seen.occupant /\ ~resp.seen.occupant
  /\ prev.role = "player" /\ resp.role = "spectator"
  /\ Len(rooms[resp.code].players) = MaxPlayers

\* C2: a room that holds two players holds one white and one black player.
C2_TwoColours ==
  \A c \in DOMAIN rooms :
    Len(rooms[c].players) = MaxPlayers => Colors(rooms[c]) = {"white", "black"}

SlotsOf(code, id) ==
  Cardinality({i \in 1..Len(rooms[code].players) : rooms[code].players[i].id = id})
    + (IF id \in rooms[code].spectators THEN 1 ELSE 0)

\* the same socket joins the same room twice in a row, the first call succeeding
\* and the room still live at the second (joinRoom tests expiry before addPlayer)
JoinedTwice ==
  /\ prev.op = "joinRoom" /\ resp.op = "joinRoom"
  /\ prev.id = resp.id /\ prev.code = resp.code
  /\ prev.success
  /\ ~resp.seen.expired

ThirdJoins ==
  /\ resp.op = "joinRoom"
  /\ resp.seen.count = MaxPlayers
  /\ \A i \in 1..Len(resp.seen.players) : resp.seen.players[i].id # resp.id
  /\ ~resp.seen.expired

C5_OneSessionPerFilling == \A c \in Codes : fillSessions[c] <= 1

(***************************************************************************)
(* Claims about the session                                                *)
(***************************************************************************)

NoTimers(g) == g.timers.white = NoTimer /\ g.timers.black = NoTimer

\* C6: while a session is playing, the clock of the side to move runs and the
\* other clock is stopped.
C6_OneClockRuns ==
  \A gameId \in DOMAIN activeGames :
    LET g == activeGames[gameId] IN
    g.status = "playing" =>
      /\ g.timers[TurnColor(g.chess)] # NoTimer
      /\ g.timers[Other(TurnColor(g.chess))] = NoTimer

C6_Witness ==
  /\ resp.op = "makeMove" /\ resp.success
  /\ activeGames[TheGame].status = "playing"
  /\ activeGames[TheGame].timers.black # NoTimer
  /\ activeGames[TheGame].timers.white = NoTimer

StatusMoves ==
  {<<"waiting", "playing">>, <<"playing", "paused">>, <<"paused", "playing">>,
   <<"playing", "finished">>, <<"paused", "finished">>}

\* C7: the status moves only along waiting -> playing -> (paused <-> playing) ->
\* finished; a finished session stays finished, has no clock running, keeps every
\* timeRemaining, and refuses every move.
C7_StatusPath ==
  [][\A gameId \in DOMAIN activeGames \cap DOMAIN activeGames' :
       LET g == activeGames[gameId]
           h == activeGames'[gameId]
       IN /\ h.status = g.status \/ <<g.status, h.status>> \in StatusMoves
          /\ h.status = "finished" => NoTimers(h)
          /\ g.status = "finished" =>
               /\ h.status = "finished"
               /\ \A i \in 1..Len(g.players) :
                    h.players[i].timeRemaining = g.players[i].timeRemaining
               /\ resp'.op = "makeMove" => ~resp'.success]_vars

C7_Witness ==
  /\ activeGames[TheGame].status = "finished"
  /\ resp.op = "makeMove" /\ resp.seen.status = "finished" /\ resp.seen.toMove
  /\ ~resp.success

\* C8: makeMove is refused as not playing when the status is not playing, else as
\* player not in game when the socket is no player, else as not your turn when
\* the player's colour is not to move, else as an invalid move when chess.js
\* rejects it; a refused move leaves board, clocks, timers, lastMoveTime, history
\* and status as they were.
C8_RefusedMove ==
  resp.op = "makeMove" =>
    /\ resp.seen.status # "playing" =>
         ~resp.success /\ resp.error = "Game is not in playing state"
    /\ resp.seen.status = "playing" /\ ~resp.seen.player =>
         ~resp.success /\ resp.error = "Player not found in this game"
    /\ resp.seen.status = "playing" /\ resp.seen.player /\ ~resp.seen.toMove =>
         ~resp.success /\ resp.error = "Not your turn"
    /\ resp.seen.status = "playing" /\ resp.seen.toMove /\ resp.seen.verdict = "illegal" =>
         ~resp.success /\ resp.error = "Invalid move"
    /\ ~resp.success => resp.seen.untouched

C8_Witness ==
  /\ resp.op = "makeMove" /\ ~resp.success /\ resp.error = "Not your turn"
  /\ resp.seen.untouched
  /\ activeGames[TheGame].chess.ply > 0

\* C9: after a successful makeMove the mover's clock is what it was when the turn
\* began, less the time since the previous move, plus one increment, floored at 0.
C9_ClockCharge ==
  resp.op = "makeMove" /\ resp.success =>
    \A gameId \in DOMAIN activeGames :
      LET g == activeGames[gameId] IN
      g.players[FindById(g, resp.id)].timeRemaining =
        Max(0, resp.seen.turnStart - (now - resp.seen.lastMoveTime) + g.settings.increment)

C11_ZeroIsTimeout ==
  \A gameId \in DOMAIN activeGames :
    LET g == activeGames[gameId] IN
    \A i \in 1..Len(g.players) :
      /\ g.players[i].timeRemaining >= 0
      /\ g.status = "playing" => g.players[i].timeRemaining # 0

\* C12: of a timer callback that uses up colour c's clock and a makeMove by c, the
\* one handled first wins.  After the timeout the move is refused as not playing;
\* after the move, which is recorded, c's timer is cleared, and a timeout is only
\* ever recorded against the side to move, never against the colour that has moved.
C12_ExpiryMoveRace ==
  /\ resp.op = "makeMove" /\ resp.seen.player /\ resp.seen.timedOut # "none" =>
        ~resp.success /\ resp.error = "Game is not in playing state"
  /\ resp.op = "makeMove" /\ resp.success =>
        \A gameId \in DOMAIN activeGames :
          LET g == activeGames[gameId]
              c == g.players[FindById(g, resp.id)].color
          IN /\ g.timers[c] = NoTimer
             /\ g.moveHistory[Len(g.moveHistory)].player = resp.id
             /\ timedOut[gameId] = "none"
  /\ \A gameId \in DOMAIN activeGames :
        LET g == activeGames[gameId] IN
        /\ timedOut[gameId] # "none" => TurnColor(g.chess) = timedOut[gameId]
        /\ g.endReason = "timeout" => g.result = Other(TurnColor(g.chess))

\* the move is handled first, with the callback that would use up the clock due
C12_Witness ==
  /\ resp.op = "makeMove" /\ resp.success /\ resp.seen.expiryDue
  /\ activeGames[TheGame].status = "playing"
  /\ activeGames[TheGame].timers.white = NoTimer

\* C13: a resign by a player of a playing session, whoever is to move and whatever
\* the position, leaves the session finished by resignation with the other colour
\* as result and no clock running.
C13_ResignFinishes ==
  resp.op = "resign" /\ resp.seen.status = "playing" /\ resp.seen.player =>
    \A gameId \in DOMAIN activeGames :
      LET g == activeGames[gameId] IN
      /\ resp.success
      /\ g.status = "finished"
      /\ g.result = Other(g.players[FindById(g, resp.id)].color)
      /\ g.endReason = "resignation"
      /\ NoTimers(g)

\* the player who is not to move resigns after a move has been played
C13_Witness ==
  /\ resp.op = "resign" /\ resp.seen.status = "playing" /\ resp.seen.player
  /\ ~resp.seen.toMove /\ resp.id = "s1"
  /\ activeGames[TheGame].chess.ply > 0
  /\ activeGames[TheGame].result = "black"

\* C14: a resign on a session that is not playing, or by a socket that is no player
\* of it, fails and leaves status, result and end reason as they were.
C14_ResignRefused ==
  resp.op = "resign" /\ (resp.seen.status # "playing" \/ ~resp.seen.player) =>
    \A gameId \in DOMAIN activeGames :
      LET g == activeGames[gameId] IN
      /\ ~resp.success
      /\ g.status = resp.seen.status
      /\ g.result = resp.seen.result
      /\ g.endReason = resp.seen.endReason

\* C15: an accept by a player whose opponent has offered a draw finishes the session
\* as a draw by mutual agreement; an accept by a player whose opponent has offered
\* none (the player's own offer does not count) fails with the no-draw-offer error
\* and leaves status and result as they were.
C15_DrawByAgreement ==
  resp.op = "accept" /\ resp.seen.player =>
    \A gameId \in DOMAIN activeGames :
      LET g == activeGames[gameId] IN
      IF resp.seen.offered
      THEN /\ resp.success
           /\ g.status = "finished" /\ g.result = "draw"
           /\ g.endReason = "mutual agreement"
      ELSE /\ ~resp.success /\ resp.error = "No draw offer to accept"
           /\ g.status = resp.seen.status /\ g.result = resp.seen.result

\* a playing session is drawn by the accept of the opponent's offer
C15_Witness ==
  /\ resp.op = "accept" /\ resp.success /\ resp.seen.status = "playing"
  /\ activeGames[TheGame].result = "draw"
  /\ activeGames[TheGame].players[FindById(activeGames[TheGame], resp.id)].drawOffered = FALSE

AllConnected(g) == \A i \in 1..Len(g.players) : g.players[i].connected

\* C16: a disconnection of a player pauses a playing session, so a playing session
\* has every player connected; a paused session has no clock running and is paused
\* only while some player is disconnected: once every player is connected again it
\* is playing again.
C16_PausedWhileDisconnected ==
  \A gameId \in DOMAIN activeGames :
    LET g == activeGames[gameId] IN
    /\ g.status = "playing" => AllConnected(g)
    /\ g.status = "paused" => NoTimers(g) /\ ~AllConnected(g)

(***************************************************************************)
(* Claims about connections                                                *)
(***************************************************************************)

\* C17: when the grace timer of a disconnected player fires after a connection
\* under the same display name has been established, the player is still in the
\* player set of its room and the timer has not made the room abandoned.
C17_ReconnectCancelsRemoval ==
  resp.op = "graceTimer" /\ resp.seen.wasPlayer /\ resp.seen.reconnected =>
    /\ resp.seen.code \in DOMAIN rooms
    /\ HasPlayer(rooms[resp.seen.code], resp.id)
    /\ rooms[resp.seen.code].status = resp.seen.status

\* C18: while the grace timer of a disconnected socket is pending, a socket that
\* has connected since under the same display name is never an occupant of a room
\* together with the disconnected socket: the identity holds one slot, not a stale
\* slot and a new one.
C18_OneSlotPerIdentity ==
  \A c \in DOMAIN rooms, s \in DOMAIN graceTimers, t \in Sockets :
    /\ graceTimers[s].reconnected
    /\ Live(t) /\ conn[t].user = conn[s].user
    /\ s \in Occupants(rooms[c])
    => t \notin Occupants(rooms[c])

\* C19: the grace timer of a socket that has not reconnected and is a player of a
\* playing room takes the socket out of the room and leaves the room abandoned; the
\* step of a grace timer changes no session.
C19_GraceTimerAbandons ==
  /\ [](resp.op = "graceTimer" /\ resp.seen.wasPlayer /\ resp.seen.status = "playing"
           /\ ~resp.seen.reconnected =>
         /\ resp.seen.code \in DOMAIN rooms
         /\ resp.id \notin Occupants(rooms[resp.seen.code])
         /\ resp.id \notin DOMAIN playerRooms
         /\ rooms[resp.seen.code].status = "abandoned")
  /\ [][DOMAIN graceTimers' # DOMAIN graceTimers /\ DOMAIN graceTimers' \subseteq DOMAIN graceTimers
          => activeGames' = activeGames]_vars

\* the timer has fired for a player of a playing room whose session is not finished
C19_Witness ==
  /\ resp.op = "graceTimer" /\ resp.seen.wasPlayer /\ resp.seen.status = "playing"
  /\ ~resp.seen.reconnected
  /\ rooms[resp.seen.code].status = "abandoned"
  /\ \E gameId \in DOMAIN activeGames :
       /\ FindById(activeGames[gameId], resp.id) # 0
       /\ activeGames[gameId].status = "paused"

\* C20: the only socket id that resolves to a session is the socket id the session
\* holds, the one that registered last: no two socket ids map to one session.
C20_OneConnectionPerIdentity ==
  \A e \in 1..Len(sessions) :
    {s \in DOMAIN socketSessions : socketSessions[s] = e} \subseteq {sessions[e].socketId}

\* C21: createSession for a display name that an existing session which is not
\* live carries answers with the id of such a session, now live, and
\* isReconnection = TRUE; when no session that is not live carries the name it
\* answers with the id of a session that did not exist before and
\* isReconnection = FALSE.
C21_RegisterReusesNotLive ==
  resp.op = "connect" =>
    IF resp.seen.notLive # {}
    THEN /\ resp.seen.sessionId \in resp.seen.notLive
         /\ sessions[resp.seen.sessionId].isActive
         /\ resp.seen.isReconnection
    ELSE /\ resp.seen.sessionId > resp.seen.known
         /\ ~resp.seen.isReconnection

(***************************************************************************)
(* Claims about the registry with two codes                                *)
(***************************************************************************)

\* C27: a createRoom that succeeds registers the new room under one of the codes
\* generateRoomCode draws that no live room used, and leaves every live room as it
\* was; a createRoom that fails leaves the rooms as they were.
C27_UniqueCodes ==
  [][resp'.op = "createRoom" =>
       IF resp'.success
       THEN /\ resp'.code \in Codes \ DOMAIN rooms
            /\ DOMAIN rooms' = DOMAIN rooms \cup {resp'.code}
            /\ \A c \in DOMAIN rooms : rooms'[c] = rooms[c]
       ELSE rooms' = rooms /\ playerRooms' = playerRooms]_vars

\* a room has been created while another room was live
C27_Witness ==
  /\ resp.op = "createRoom" /\ resp.success
  /\ Cardinality(DOMAIN rooms) = 2

\* C28: joinRoom finds the live room its code names whatever the case of the
\* letters; when there is none it fails with "Room not found" and changes neither
\* the rooms nor the index; when the room is idle for more than 24 h it fails with
\* "Room has expired", and the room and the index entries of all its occupants are
\* gone.
C28_JoinLookup ==
  /\ [](resp.op = "joinRoom" =>
         /\ resp.seen.live = {} => ~resp.success /\ resp.error = "Room not found"
         /\ resp.seen.live # {} => resp.error # "Room not found"
         /\ resp.seen.expired # {} =>
              /\ ~resp.success /\ resp.error = "Room has expired"
              /\ resp.seen.live \cap DOMAIN rooms = {}
              /\ resp.seen.occupants \cap DOMAIN playerRooms = {})
  /\ [][resp'.op = "joinRoom" /\ resp'.seen.live = {} =>
          rooms' = rooms /\ playerRooms' = playerRooms]_vars

\* a join typed in lower case has found the room expired, with two occupants
C28_Witness ==
  /\ resp.op = "joinRoom" /\ resp.typed = "ab12"
  /\ resp.seen.expired = {"AB12"}
  /\ Cardinality(resp.seen.occupants) = 2
  /\ resp.error = "Room has expired"

\* C29: every registered room has an occupant, player or spectator; the room whose
\* only occupant has left is no longer registered.
C29_NoEmptyRoom ==
  /\ \A c \in DOMAIN rooms : Occupants(rooms[c]) # {}
  /\ resp.op = "leaveRoom" /\ resp.seen.occupants = {resp.id} =>
       resp.seen.live \cap DOMAIN rooms = {}

\* the only occupant of a room has left it while another room is registered
C29_Witness ==
  /\ resp.op = "leaveRoom" /\ resp.seen.live # {}
  /\ resp.seen.occupants = {resp.id}
  /\ resp.seen.live \cap DOMAIN rooms = {}
  /\ DOMAIN rooms # {}

\* C33: a registered room whose status is ready holds exactly two players.
C33_ReadyHasTwoPlayers ==
  \A c \in DOMAIN rooms :
    rooms[c].status = "ready" => Len(rooms[c].players) = MaxPlayers

\* C37: the index names room c for a socket exactly when c is registered and the
\* socket is one of its players or spectators.
C37_IndexAgrees ==
  \A id \in Sockets, c \in Codes :
    (id \in DOMAIN playerRooms /\ playerRooms[id] = c)
      <=> (c \in DOMAIN rooms /\ id \in Occupants(rooms[c]))

\* C30: after leave_room the socket is no occupant of the room the index named
\* and has no index entry; the status of that room is abandoned if the socket was
\* one of its players and the status was playing, and is what it was otherwise.
C30_LeaveAbandons ==
  resp.op = "leave_room" /\ resp.seen.known =>
    /\ resp.id \notin DOMAIN playerRooms
    /\ resp.seen.code \in DOMAIN rooms =>
         /\ resp.id \notin Occupants(rooms[resp.seen.code])
         /\ rooms[resp.seen.code].status =
              IF resp.seen.wasPlayer /\ resp.seen.status = "playing"
              THEN "abandoned" ELSE resp.seen.status

\* a player has left a playing room that another occupant keeps registered
C30_Witness ==
  /\ resp.op = "leave_room" /\ resp.seen.wasPlayer /\ resp.seen.status = "playing"
  /\ resp.seen.code \in DOMAIN rooms
  /\ rooms[resp.seen.code].status = "abandoned"

(***************************************************************************)
(* Claims about the coordinator's sessions                                 *)
(***************************************************************************)

\* C38: each player of a session constructed for a room has, in the session, the
\* colour it holds in that room when the session is constructed.
C38_ColoursCarriedOver ==
  [][\A gameId \in DOMAIN activeGames' \ DOMAIN activeGames :
       \A c \in DOMAIN rooms' :
         fillSessions'[c] > fillSessions[c] =>
           \A i \in 1..Len(activeGames'[gameId].players) :
             \E j \in 1..Len(rooms'[c].players) :
               /\ rooms'[c].players[j].id = activeGames'[gameId].players[i].id
               /\ rooms'[c].players[j].color = activeGames'[gameId].players[i].color]_vars

\* C39: no session counts more than one game played for the one rated game.
C39_RatedOnce ==
  \A e \in 1..Len(sessions) : sessions[e].gamesPlayed <= 1

\* C40: a socket that has disconnected is in no matchmaking bucket, and no game is
\* constructed by join_matchmaking with a disconnected socket as a player.
C40_GoneIsNotPaired ==
  /\ [](\A s \in Sockets :
          conn[s].state = "gone" => BucketsOf(matchmakingQueues, s) = {})
  /\ [][\A gameId \in DOMAIN activeGames' \ DOMAIN activeGames :
         \A i \in 1..Len(activeGames'[gameId].players) :
           conn'[activeGames'[gameId].players[i].id].state = "live"]_vars

\* a socket waiting in a bucket has disconnected, and the socket that then joined
\* that bucket found it empty and waits
C40_Witness ==
  /\ resp.op = "join_matchmaking" /\ resp.seen.others = << >>
  /\ gamesCreated = 0
  /\ matchmakingQueues[resp.key] = <<resp.id>>
  /\ \E s \in Sockets :
       /\ conn[s].state = "gone"
       /\ matchmakingQueue[s] = resp.key

\* C22: a successful make_move of a session started from a room is emitted to a
\* channel that both players of the session are in.
C22_MoveReachesBothPlayers ==
  resp.op = "make_move" /\ resp.success =>
    resp.seen.players \subseteq resp.seen.receivers

\* C23: a finished session in activeGames has a clean-up timer pending (the only
\* code that deletes it), and a clean-up timer deletes finished sessions only.
C23_FinishedIsPurged ==
  /\ \A gameId \in DOMAIN activeGames :
       activeGames[gameId].status = "finished" => gameId \in cleanupTimers
  /\ resp.op = "cleanup" => resp.seen.status = "finished"

(***************************************************************************)
(* Claims about matchmaking                                                *)
(***************************************************************************)

\* C24: a socket is in at most one bucket and at most once in it; after a
\* join_matchmaking the socket is in none of the other buckets.
C24_OneBucket ==
  /\ \A s \in Sockets :
       /\ Cardinality(BucketsOf(matchmakingQueues, s)) <= 1
       /\ \A k \in DOMAIN matchmakingQueues :
            Cardinality({i \in 1..Len(matchmakingQueues[k]) :
                           matchmakingQueues[k][i] = s}) <= 1
  /\ resp.op = "join_matchmaking" =>
       BucketsOf(matchmakingQueues, resp.id) \subseteq {resp.key}

\* a socket that waited in one bucket has joined the other and waits there only
C24_Witness ==
  /\ resp.op = "join_matchmaking"
  /\ BucketsOf(resp.seen.queues, resp.id) = QueueKeys \ {resp.key}
  /\ BucketsOf(matchmakingQueues, resp.id) = {resp.key}

C26_LeaveIsSafe ==
  /\ [](resp.op = "leave_matchmaking" =>
         /\ resp.success
         /\ BucketsOf(matchmakingQueues, resp.id) = {}
         /\ matchmakingQueues = DeleteFromQueues(resp.seen.queues, resp.id))
  /\ [][resp'.op = "leave_matchmaking" =>
          activeGames' = activeGames /\ gamesCreated' = gamesCreated]_vars

\* a paired socket has sent leave_matchmaking: its session is there, still playing
C26_Witness ==
  /\ resp.op = "leave_matchmaking"
  /\ BucketsOf(resp.seen.queues, resp.id) = {}
  /\ \E gameId \in DOMAIN activeGames :
       /\ FindById(activeGames[gameId], resp.id) # 0
       /\ activeGames[gameId].status = "playing"

(***************************************************************************)
(* Claims about GameState methods on their own                             *)
(***************************************************************************)

\* C31: startGame succeeds exactly for a session of two players; a failed call
\* leaves the status as it was; after a successful call the status is playing,
\* each player has the initial time of the settings, white is to move, white's
\* clock runs and black's does not.
C31_StartGame ==
  resp.op = "startGame" =>
    LET g == activeGames[TheGame] IN
    /\ resp.success <=> resp.seen.count = 2
    /\ ~resp.success => g.status = resp.seen.status
    /\ resp.success =>
         /\ g.status = "playing"
         /\ \A i \in 1..Len(g.players) :
              g.players[i].timeRemaining = g.settings.initialTime
         /\ TurnColor(g.chess) = "white"
         /\ g.timers.white # NoTimer /\ g.timers.black = NoTimer

\* a session of two players has been started
C31_Witness ==
  /\ resp.op = "startGame" /\ resp.success
  /\ activeGames[TheGame].status = "playing"
  /\ activeGames[TheGame].settings = MatchSettings

\* C32: the chat history holds at most 50 messages, in the order they arrived and
\* without a gap, the message added last at its end, so the ones dropped are the
\* oldest; the snapshot holds the last min(20, length) of them in that order.
C32_ChatCapped ==
  LET h == activeGames[TheGame].chatHistory
      k == IF Len(h) < 20 THEN Len(h) ELSE 20
  IN /\ Len(h) <= 50
     /\ \A i \in 1..(Len(h) - 1) : h[i + 1] = h[i] + 1
     /\ resp.op = "chat_message" /\ resp.success => h[Len(h)] = resp.message
     /\ ChatSnapshot(activeGames[TheGame]) = [i \in 1..k |-> h[Len(h) - k + i]]

\* more than 50 messages have been sent: the oldest are gone
C32_Witness ==
  LET h == activeGames[TheGame].chatHistory IN
  /\ Len(h) = 50 /\ h[1] > 1
  /\ Len(ChatSnapshot(activeGames[TheGame])) = 20
  /\ ChatSnapshot(activeGames[TheGame])[1] = h[31]

\* C34: the move history grows by exactly one entry, added at its end, on each
\* successful makeMove and is left as it was by a refused makeMove and by every
\* other operation; the movers of its entries are white, black, white, ... in turn.
C34_MovesInOrder ==
  /\ [](\A i \in 1..Len(activeGames[TheGame].moveHistory) :
          /\ activeGames[TheGame].moveHistory[i].ply = i
          /\ activeGames[TheGame].moveHistory[i].color =
               IF i % 2 = 1 THEN "white" ELSE "black")
  /\ [][LET h == activeGames[TheGame].moveHistory
            h2 == activeGames'[TheGame].moveHistory
        IN IF resp'.op = "makeMove" /\ resp'.success
           THEN Len(h2) = Len(h) + 1 /\ SubSeq(h2, 1, Len(h)) = h
           ELSE h2 = h]_vars

\* black has answered white's first move
C34_Witness ==
  /\ resp.op = "makeMove" /\ resp.success
  /\ Len(activeGames[TheGame].moveHistory) = 2
  /\ activeGames[TheGame].moveHistory[2].color = "black"

\* C35: a successful makeMove gives the turn to the colour that did not move and
\* changes the timeRemaining of no player but the mover.
C35_MoveFrame ==
  [][resp'.op = "makeMove" /\ resp'.success =>
       LET g == activeGames[TheGame]
           g2 == activeGames'[TheGame]
           i == FindById(g, resp'.id)
       IN /\ TurnColor(g.chess) = g.players[i].color
          /\ TurnColor(g2.chess) = Other(g.players[i].color)
          /\ \A j \in 1..Len(g.players) :
               j # i => g2.players[j].timeRemaining = g.players[j].timeRemaining]_vars

\* white has moved and its clock is not what the turn started with, while black's
\* clock is the initial time
C35_Witness ==
  /\ resp.op = "makeMove" /\ resp.success
  /\ activeGames[TheGame].chess.ply = 1
  /\ activeGames[TheGame].players[1].timeRemaining #
       activeGames[TheGame].settings.initialTime
  /\ activeGames[TheGame].players[2].timeRemaining =
       activeGames[TheGame].settings.initialTime

\* C36: no step taken on a finished session changes its result or its end reason.
C36_ResultIsFinal ==
  [][activeGames[TheGame].status = "finished" =>
       /\ activeGames'[TheGame].result = activeGames[TheGame].result
       /\ activeGames'[TheGame].endReason = activeGames[TheGame].endReason]_vars

====
